---- MODULE Spec2Model ----
(***************************************************************************)
(* Model of src/patchParser.ts: parsePatch, processChunk,                  *)
(* processNormalLine, processConflictMarker and parseChunkHeader; of       *)
(* src/reviewer.ts: parseReviewComment, Reviewer.processReviewTask,        *)
(* reviewChanges, createReview and fallbackReviewBot with the chat bot     *)
(* clients' create; and of the Commenter: createReviewComment,             *)
(* addReviewedCommitId, getReviewedCommitIds, createComment, updateComment *)
(* and listComments.                                                       *)
(*                                                                         *)
(* A string is a sequence of one-character strings, so that startsWith,    *)
(* includes, split, replace and the two regular expressions are computed   *)
(* character by character as the JavaScript does.  A patch is the sequence *)
(* of its lines (patch.split("\n")); indices into lines are 0-based as in  *)
(* the source, At(k) reads lines[k].                                       *)
(***************************************************************************)
EXTENDS Integers, Sequences, FiniteSets, TLC

(* ----------------------------- strings -------------------------------- *)

\* the JavaScript value undefined (no string is a one-element sequence
\* holding a nine-character string)
Undefined == <<"undefined">>

Digits == <<"0", "1", "2", "3", "4", "5", "6", "7", "8", "9">>

DigitChars == {Digits[d] : d \in 1..10}

IsDigit(c) == c \in DigitChars

DigitValue(c) == (CHOOSE d \in 1..10 : Digits[d] = c) - 1

\* \w of a JavaScript regular expression: [A-Za-z0-9_]
WordChars ==
    {"a", "b", "c", "d", "e", "f", "g", "h", "i", "j", "k", "l", "m",
     "n", "o", "p", "q", "r", "s", "t", "u", "v", "w", "x", "y", "z",
     "A", "B", "C", "D", "E", "F", "G", "H", "I", "J", "K", "L", "M",
     "N", "O", "P", "Q", "R", "S", "T", "U", "V", "W", "X", "Y", "Z",
     "0", "1", "2", "3", "4", "5", "6", "7", "8", "9", "_"}

IsWord(c) == c \in WordChars

\* \s of a JavaScript regular expression, over the characters a line can hold
SpaceChars == {" ", "\t", "\r"}

IsSpace(c) == c \in SpaceChars

\* s.substring(a, b): characters a .. b-1, 0-based
Substring(s, a, b) == [k \in 1..(b - a) |-> s[a + k]]

\* the literal lit stands in s at 0-based position p
LitAt(s, p, lit) ==
    /\ p >= 0
    /\ p + Len(lit) <= Len(s)
    /\ \A k \in 1..Len(lit) : s[p + k] = lit[k]

\* String.prototype.startsWith
StartsWith(s, lit) == LitAt(s, 0, lit)

\* String.prototype.includes
Includes(s, lit) == \E p \in 0..Len(s) : LitAt(s, p, lit)

\* end (0-based, exclusive) of the longest run of characters of the class
\* that starts at p: what a greedy  X+  or  X*  consumes
RunEnd(s, p, class) ==
    IF p >= Len(s) THEN p
    ELSE CHOOSE e \in p..Len(s) :
             /\ \A k \in (p + 1)..e : s[k] \in class
             /\ (e < Len(s) => s[e + 1] \notin class)

\* the same for a negated class [^...]
RunEndNot(s, p, class) ==
    IF p >= Len(s) THEN p
    ELSE CHOOSE e \in p..Len(s) :
             /\ \A k \in (p + 1)..e : s[k] \notin class
             /\ (e < Len(s) => s[e + 1] \in class)

\* Number.parseInt(digits, 10) of a non-empty run of decimal digits
RECURSIVE ParseInt(_)
ParseInt(s) ==
    IF Len(s) = 0 THEN 0
    ELSE 10 * ParseInt(SubSeq(s, 1, Len(s) - 1)) + DigitValue(s[Len(s)])

\* `${n}` of a non-negative integer
RECURSIVE NumberToString(_)
NumberToString(n) ==
    IF n < 10 THEN <<Digits[n + 1]>>
    ELSE NumberToString(n \div 10) \o <<Digits[(n % 10) + 1]>>

\* line.replace(/^\+*/, ""): the line without its leading run of '+'
StripPlus(s) == Substring(s, RunEnd(s, 0, {"+"}), Len(s))

\* line.split(" ")[1]: the text between the first and the second space,
\* undefined when the line holds no space
SplitSecond(s) ==
    IF ~\E k \in 1..Len(s) : s[k] = " " THEN Undefined
    ELSE LET first == CHOOSE k \in 1..Len(s) :
                          s[k] = " " /\ \A j \in 1..(k - 1) : s[j] # " "
             end   == RunEndNot(s, first, {" "})
         IN  Substring(s, first, end)

(* ------------------------ literals of the parser ---------------------- *)

AtAt          == <<"@", "@">>
ConflictStart == <<"<", "<", "<", "<", "<", "<", "<">>
Separator     == <<"=", "=", "=", "=", "=", "=", "=">>
ConflictEnd   == <<">", ">", ">", ">", ">", ">", ">">>
LIT_HDR_OPEN  == <<"@", "@", " ", "-">>
LIT_HDR_CLOSE == <<" ", "@", "@", " ">>
LIT_END_SP    == <<">", ">", ">", ">", ">", ">", ">", " ">>

(* ------------------------ parseChunkHeader ---------------------------- *)

\* the groups of  /@@ -(\d+),(\d+) \+(\d+),(\d+) @@ (.+)/  tried at 0-based
\* position p of the line: every \d+ is followed by a non-digit literal, so
\* it consumes the whole run of digits; (.+) needs one character that is
\* not a line terminator
HeaderAt(s, p) ==
    LET a1 == p + 4
        e1 == RunEnd(s, a1, DigitChars)
        a2 == e1 + 1
        e2 == RunEnd(s, a2, DigitChars)
        a3 == e2 + 2
        e3 == RunEnd(s, a3, DigitChars)
        a4 == e3 + 1
        e4 == RunEnd(s, a4, DigitChars)
    IN  [matches |->
             /\ LitAt(s, p, LIT_HDR_OPEN)
             /\ e1 > a1
             /\ LitAt(s, e1, <<",">>)
             /\ e2 > a2
             /\ LitAt(s, e2, <<" ", "+">>)
             /\ e3 > a3
             /\ LitAt(s, e3, <<",">>)
             /\ e4 > a4
             /\ LitAt(s, e4, LIT_HDR_CLOSE)
             /\ e4 + 4 < Len(s)
             /\ s[e4 + 5] # "\r",
         g1 |-> Substring(s, a1, e1),
         g2 |-> Substring(s, a2, e2),
         g3 |-> Substring(s, a3, e3),
         g4 |-> Substring(s, a4, e4),
         g5 |-> Substring(s, e4 + 4, Len(s))]

\* the value null that parseChunkHeader returns for a line without a match
Null == [isNull |-> TRUE]

parseChunkHeader(line) ==
    IF ~\E p \in 0..Len(line) : HeaderAt(line, p).matches THEN Null
    ELSE LET p == CHOOSE q \in 0..Len(line) :
                      /\ HeaderAt(line, q).matches
                      /\ \A r \in 0..(q - 1) : ~HeaderAt(line, r).matches
             headerMatch == HeaderAt(line, p)
         IN  [fromStart |-> ParseInt(headerMatch.g1),
              fromCount |-> ParseInt(headerMatch.g2),
              toStart   |-> ParseInt(headerMatch.g3),
              toCount   |-> ParseInt(headerMatch.g4),
              firstLine |-> headerMatch.g5]

(* ---------------------- closing conflict marker ----------------------- *)

\* the groups of  />>>>>>> (\w+)\s+\(([^)]+)\)/  tried at position p
CommitAt(s, p) ==
    LET a1 == p + 8
        e1 == RunEnd(s, a1, WordChars)
        e2 == RunEnd(s, e1, SpaceChars)
        a3 == e2 + 1
        e3 == RunEndNot(s, a3, {")"})
    IN  [matches |->
             /\ LitAt(s, p, LIT_END_SP)
             /\ e1 > a1
             /\ e2 > e1
             /\ LitAt(s, e2, <<"(">>)
             /\ e3 > a3
             /\ LitAt(s, e3, <<")">>),
         g1 |-> Substring(s, a1, e1),
         g2 |-> Substring(s, a3, e3)]

\* the pattern with the "(branch)" part made optional: a closing line
\* ">>>>>>> commit" alone yields the commit id
commitMatch_BranchOptional(marker) ==
    IF \E p \in 0..Len(marker) : CommitAt(marker, p).matches
    THEN LET p == CHOOSE q \in 0..Len(marker) :
                      /\ CommitAt(marker, q).matches
                      /\ \A r \in 0..(q - 1) : ~CommitAt(marker, r).matches
         IN  [modCommitId |-> CommitAt(marker, p).g1,
              modBranch   |-> CommitAt(marker, p).g2]
    ELSE IF \E p \in 0..Len(marker) :
                /\ LitAt(marker, p, LIT_END_SP)
                /\ RunEnd(marker, p + 8, WordChars) > p + 8
    THEN LET p == CHOOSE q \in 0..Len(marker) :
                      /\ LitAt(marker, q, LIT_END_SP)
                      /\ RunEnd(marker, q + 8, WordChars) > q + 8
                      /\ \A r \in 0..(q - 1) :
                             ~(/\ LitAt(marker, r, LIT_END_SP)
                               /\ RunEnd(marker, r + 8, WordChars) > r + 8)
         IN  [modCommitId |-> Substring(marker, p + 8,
                                        RunEnd(marker, p + 8, WordChars)),
              modBranch   |-> Undefined]
    ELSE [modCommitId |-> Undefined, modBranch |-> Undefined]

\* marker.match(/>>>>>>> (\w+)\s+\(([^)]+)\)/): modCommitId and modBranch,
\* both undefined when the marker line does not match
commitMatch(marker) ==
    IF ~\E p \in 0..Len(marker) : CommitAt(marker, p).matches
    THEN [modCommitId |-> Undefined, modBranch |-> Undefined]
    ELSE LET p == CHOOSE q \in 0..Len(marker) :
                      /\ CommitAt(marker, q).matches
                      /\ \A r \in 0..(q - 1) : ~CommitAt(marker, r).matches
         IN  [modCommitId |-> CommitAt(marker, p).g1,
              modBranch   |-> CommitAt(marker, p).g2]


(* ------------------------------ inputs -------------------------------- *)

\* chunk headers: well formed, well formed with two-digit numbers, without
\* trailing context, and malformed
HdrA    == <<"@", "@", " ", "-", "1", ",", "2", " ", "+", "3", ",", "3", " ", "@", "@", " ", "f">>
HdrB    == <<"@", "@", " ", "-", "1", "0", ",", "3", " ", "+", "9", ",", "5", " ", "@", "@", " ", "g">>
HdrBare == <<"@", "@", " ", "-", "1", ",", "2", " ", "+", "3", ",", "3", " ", "@", "@">>
HdrBad  == <<"@", "@", " ", "x">>
\* body lines: context, addition, deletion, empty
Ctx     == <<" ", "a">>
Add     == <<"+", "b">>
Del     == <<"-", "c">>
Empty   == << >>
\* conflict markers as they stand in a diff of an unmerged file
Open     == <<"+", "<", "<", "<", "<", "<", "<", "<", " ", "H", "E", "A", "D">>
OpenCtx  == <<" ", "<", "<", "<", "<", "<", "<", "<", " ", "H", "E", "A", "D">>
Sep      == <<"+", "=", "=", "=", "=", "=", "=", "=">>
Close    == <<"+", ">", ">", ">", ">", ">", ">", ">", " ", "9", "b", "5", " ", "(", "w", "i", "p", ")">>
CloseBare == <<"+", ">", ">", ">", ">", ">", ">", ">", " ", "9", "b", "5">>

MaxNormal == 4
MaxAny    == 2
MaxBody   == 5
MaxTail   == 3

NormalLines   == {HdrA, HdrB, Ctx, Add, Del}
AnyLines      == {HdrA, HdrB, HdrBare, HdrBad, Ctx, Add, Del, Empty,
                  Open, OpenCtx, Sep, Close, CloseBare}
ConflictLines == {Ctx, Open, Sep, Close, CloseBare}
OpenLines     == {Open, OpenCtx}
TailLines     == {HdrA, HdrBad, Ctx, Del, Sep, Close}

SeqsUpTo(S, lo, hi) == UNION {[1..n -> S] : n \in lo..hi}

\* patch?: string -- absent, or the lines of a string (a string always
\* splits into at least one line; the empty string is the single empty line)
Absent == <<Undefined>>

\* the patches tried: diffs without conflicts, short patches of any lines,
\* one chunk with conflict blocks, and one chunk whose body opens a
\* conflict block followed by any lines, headers among them
Patches ==
    {Absent}
    \cup SeqsUpTo(NormalLines, 1, MaxNormal)
    \cup SeqsUpTo(AnyLines, 1, MaxAny)
    \cup {<<HdrA>> \o b : b \in SeqsUpTo(ConflictLines, 0, MaxBody)}
    \cup {<<HdrA, o>> \o t : o \in OpenLines, t \in SeqsUpTo(TailLines, 0, MaxTail)}

Filenames == {"a.ts"}

(* ------------------------------- state -------------------------------- *)

VARIABLES
    filename,   \* parsePatch parameter
    patch,      \* parsePatch parameter
    pc,         \* where the call stands
    lines,      \* parsePatch: patch.split("\n")
    i,          \* parsePatch: index of the top-level scan
    results,    \* parsePatch: DiffResult[]
    chunk,      \* locals of the processChunk call in progress
    conflict,   \* locals of the processConflictMarker call in progress
    history,    \* the parsePatch calls that have returned: arguments, result
    rawA,       \* parseReviewComment argument; the model's reply to the task
    rawB,       \* parseReviewComment argument
    localAction,\* Reviewer.options.localAction
    rpc,        \* where the reviewer stands
    parsed,     \* what parseReviewComment returned for rawA, rawB, both joined
    reviews,    \* processReviewTask: reviews
    ridx,       \* processReviewTask: position of the for loop over reviews
    requests,   \* the requests sent to octokit.rest.pulls.createReviewComment
    configured, \* Reviewer.options.model: the models as configured
    bots,       \* Reviewer.reviewBot: the shared list of chat bots
    retries,    \* Options.retries, shared by the chat bots
    batchSize,  \* reviewChanges parameter
    batchI,     \* reviewChanges: i of the loop over the batches
    bpc,        \* where reviewChanges stands
    tasks,      \* the processReviewTask calls of reviewChanges
    removals,   \* the fallbackReviewBot calls that removed a bot
    cbody,      \* the comment text the commit ids are kept in
    cprev,      \* addReviewedCommitId argument of the last call: comment
    cx,         \* addReviewedCommitId argument of the last call: commitId
    cids,       \* what getReviewedCommitIds returned for cbody
    cadds,      \* how many addReviewedCommitId calls were made
    server,     \* the issue comments of the pull request on GitHub
    cache,      \* Commenter.issueCommentsCache[target]
    listed,     \* what the last listComments call returned
    kops,       \* how many Commenter calls were made
    apiErrors   \* how many of the GitHub API calls failed

parserVars == <<filename, patch, pc, lines, i, results, chunk, conflict>>

reviewVars == <<rawA, rawB, localAction, rpc, parsed, reviews, ridx, requests>>

batchVars == <<configured, bots, retries, batchSize, batchI, bpc, tasks, removals>>

commitVars == <<cbody, cprev, cx, cids, cadds>>

cacheVars == <<server, cache, listed, kops, apiErrors>>

restVars == <<batchVars, commitVars, cacheVars>>

\* what a step of parsePatch leaves alone
nonParserVars == <<history, reviewVars, restVars>>

vars == <<parserVars, history, reviewVars, restVars>>

\* lines[k], 0-based
At(k) == lines[k + 1]

NoChunk == [startIndex |-> 0, headerResult |-> Null, lineNo |-> 0,
            fromContent |-> << >>, toContent |-> << >>,
            origBranch |-> Undefined, modBranch |-> Undefined,
            modCommitId |-> Undefined, i |-> 0]

NoConflict == [patchLineNo |-> 0, lineNo |-> 0, origBranch |-> Undefined,
               index |-> 0]

\* the reviewer is not running
ReviewerIdle ==
    /\ rawA = << >>
    /\ rawB = << >>
    /\ localAction = FALSE
    /\ rpc = "idle"
    /\ parsed = [a |-> << >>, b |-> << >>, ab |-> << >>]
    /\ reviews = << >>
    /\ ridx = 0
    /\ requests = << >>

\* reviewChanges is not running
BatchIdle ==
    /\ configured = << >>
    /\ bots = << >>
    /\ retries = 0
    /\ batchSize = 0
    /\ batchI = 0
    /\ bpc = "idle"
    /\ tasks = << >>
    /\ removals = << >>

\* no commit id is being recorded
CommitIdle ==
    /\ cbody = << >>
    /\ cprev = << >>
    /\ cx = << >>
    /\ cids = << >>
    /\ cadds = 0

\* the Commenter is not in use
CacheIdle ==
    /\ server = << >>
    /\ cache = [present |-> FALSE, list |-> << >>]
    /\ listed = [called |-> FALSE, list |-> << >>]
    /\ kops = 0
    /\ apiErrors = 0

RestIdle == BatchIdle /\ CommitIdle /\ CacheIdle

Init ==
    /\ filename \in Filenames
    /\ patch \in Patches
    /\ pc = "parsePatch"
    /\ lines = << >>
    /\ i = 0
    /\ results = << >>
    /\ chunk = NoChunk
    /\ conflict = NoConflict
    /\ history = << >>
    /\ ReviewerIdle
    /\ RestIdle

(* ------------------------------ parsePatch ---------------------------- *)

\* !patch: undefined or the empty string
Falsy(p) == p = Absent \/ p = <<Empty>>

\* if (!patch) return results
ParsePatchEmpty ==
    /\ pc = "parsePatch"
    /\ Falsy(patch)
    /\ pc' = "done"
    /\ UNCHANGED <<nonParserVars, filename, patch, lines, i, results, chunk, conflict>>

\* const lines = patch.split("\n"); let i = 0
ParsePatchSplit ==
    /\ pc = "parsePatch"
    /\ ~Falsy(patch)
    /\ lines' = patch
    /\ i' = 0
    /\ pc' = "scan"
    /\ UNCHANGED <<nonParserVars, filename, patch, results, chunk, conflict>>

\* the else branch of the top-level loop: skip a line that is no header
SkipLine ==
    /\ pc = "scan"
    /\ i < Len(lines)
    /\ ~StartsWith(At(i), AtAt)
    /\ i' = i + 1
    /\ UNCHANGED <<nonParserVars, filename, patch, pc, lines, results, chunk, conflict>>

\* processChunk returns {result: null, nextIndex: startIndex + 1}
SkipHeader ==
    /\ pc = "scan"
    /\ i < Len(lines)
    /\ StartsWith(At(i), AtAt)
    /\ parseChunkHeader(At(i)) = Null
    /\ i' = i + 1
    /\ UNCHANGED <<nonParserVars, filename, patch, pc, lines, results, chunk, conflict>>

\* processChunk up to its loop: the header matched
EnterChunk ==
    /\ pc = "scan"
    /\ i < Len(lines)
    /\ StartsWith(At(i), AtAt)
    /\ parseChunkHeader(At(i)) # Null
    /\ chunk' = [startIndex |-> i,
                 headerResult |-> parseChunkHeader(At(i)),
                 lineNo |-> parseChunkHeader(At(i)).toStart - 1,
                 fromContent |-> << >>, toContent |-> << >>,
                 origBranch |-> Undefined, modBranch |-> Undefined,
                 modCommitId |-> Undefined, i |-> i + 1]
    /\ pc' = "chunk"
    /\ UNCHANGED <<nonParserVars, filename, patch, lines, i, results, conflict>>

\* return results
ParsePatchReturn ==
    /\ pc = "scan"
    /\ i >= Len(lines)
    /\ pc' = "done"
    /\ UNCHANGED <<nonParserVars, filename, patch, lines, i, results, chunk, conflict>>

(* ----------------------------- processChunk --------------------------- *)

\* while (i < lines.length && !lines[i].startsWith("@@"))
ChunkLoop == chunk.i < Len(lines) /\ ~StartsWith(At(chunk.i), AtAt)

\* processNormalLine with the counter advanced on every line, deletions
\* included
processNormalLine_DeletionAdvances(lineNo, line, fromContent, toContent) ==
    IF StartsWith(line, <<"+">>)
    THEN [fromContent |-> fromContent,
          toContent |-> Append(toContent,
                               NumberToString(lineNo + 1) \o <<" ">> \o line),
          advance |-> TRUE]
    ELSE IF StartsWith(line, <<"-">>)
    THEN [fromContent |-> Append(fromContent, line),
          toContent |-> toContent,
          advance |-> TRUE]
    ELSE [fromContent |-> Append(fromContent, line),
          toContent |-> Append(toContent,
                               NumberToString(lineNo + 1) \o <<" ">> \o line),
          advance |-> TRUE]

\* processNormalLine with an addition pushed to both sides as a context
\* line is
processNormalLine_AdditionOnBothSides(lineNo, line, fromContent, toContent) ==
    IF StartsWith(line, <<"-">>)
    THEN [fromContent |-> Append(fromContent, line),
          toContent |-> toContent,
          advance |-> FALSE]
    ELSE [fromContent |-> Append(fromContent, line),
          toContent |-> Append(toContent,
                               NumberToString(lineNo + 1) \o <<" ">> \o line),
          advance |-> TRUE]

\* the three branches of processNormalLine: the arrays after the call and
\* the value returned
processNormalLine(lineNo, line, fromContent, toContent) ==
    IF StartsWith(line, <<"+">>)
    THEN [fromContent |-> fromContent,
          toContent |-> Append(toContent,
                               NumberToString(lineNo + 1) \o <<" ">> \o line),
          advance |-> TRUE]
    ELSE IF StartsWith(line, <<"-">>)
    THEN [fromContent |-> Append(fromContent, line),
          toContent |-> toContent,
          advance |-> FALSE]
    ELSE [fromContent |-> Append(fromContent, line),
          toContent |-> Append(toContent,
                               NumberToString(lineNo + 1) \o <<" ">> \o line),
          advance |-> TRUE]

\* one turn of the loop on a line without "<<<<<<<"
ChunkNormalLine ==
    /\ pc = "chunk"
    /\ ChunkLoop
    /\ ~Includes(At(chunk.i), ConflictStart)
    /\ LET r == processNormalLine(chunk.lineNo, At(chunk.i),
                                  chunk.fromContent, chunk.toContent)
       IN  chunk' = [chunk EXCEPT
                         !.fromContent = r.fromContent,
                         !.toContent = r.toContent,
                         !.lineNo = IF r.advance THEN @ + 1 ELSE @,
                         !.i = @ + 1]
    /\ UNCHANGED <<nonParserVars, filename, patch, pc, lines, i, results, conflict>>

\* the turn on a line that includes "<<<<<<<" without its lineNo++
ChunkConflictLine_NoIncrement ==
    /\ pc = "chunk"
    /\ ChunkLoop
    /\ Includes(At(chunk.i), ConflictStart)
    /\ conflict' = [patchLineNo |-> chunk.lineNo,
                    lineNo |-> chunk.i,
                    origBranch |-> SplitSecond(At(chunk.i)),
                    index |-> chunk.i + 1]
    /\ pc' = "original"
    /\ UNCHANGED <<nonParserVars, filename, patch, lines, i, results, chunk>>

\* one turn of the loop on a line that includes "<<<<<<<": lineNo++ and the
\* call of processConflictMarker up to its first loop
\* (origBranch = markerLine.split(" ")[1], index = lineNo + 1)
ChunkConflictLine ==
    /\ pc = "chunk"
    /\ ChunkLoop
    /\ Includes(At(chunk.i), ConflictStart)
    /\ chunk' = [chunk EXCEPT !.lineNo = @ + 1]
    /\ conflict' = [patchLineNo |-> chunk.lineNo + 1,
                    lineNo |-> chunk.i,
                    origBranch |-> SplitSecond(At(chunk.i)),
                    index |-> chunk.i + 1]
    /\ pc' = "original"
    /\ UNCHANGED <<nonParserVars, filename, patch, lines, i, results>>

\* the DiffResult with lineCount taken from the collected content instead
\* of the header
ChunkResult_CountsContent ==
    [from |-> [filename |-> filename,
               startLine |-> chunk.headerResult.fromStart,
               lineCount |-> Len(chunk.fromContent),
               content |-> chunk.fromContent,
               branch |-> chunk.origBranch],
     to   |-> [filename |-> filename,
               startLine |-> chunk.headerResult.toStart,
               lineCount |-> Len(chunk.toContent),
               content |-> chunk.toContent,
               branch |-> chunk.modBranch,
               commitId |-> chunk.modCommitId]]

\* the DiffResult that processChunk builds from its locals
ChunkResult ==
    [from |-> [filename |-> filename,
               startLine |-> chunk.headerResult.fromStart,
               lineCount |-> chunk.headerResult.fromCount,
               content |-> chunk.fromContent,
               branch |-> chunk.origBranch],
     to   |-> [filename |-> filename,
               startLine |-> chunk.headerResult.toStart,
               lineCount |-> chunk.headerResult.toCount,
               content |-> chunk.toContent,
               branch |-> chunk.modBranch,
               commitId |-> chunk.modCommitId]]

\* the loop is over: return {result, nextIndex: i}; parsePatch pushes the
\* result and continues at nextIndex
ChunkReturn ==
    /\ pc = "chunk"
    /\ ~ChunkLoop
    /\ results' = Append(results, ChunkResult)
    /\ i' = chunk.i
    /\ chunk' = NoChunk
    /\ pc' = "scan"
    /\ UNCHANGED <<nonParserVars, filename, patch, lines, conflict>>

(* ------------------------ processConflictMarker ----------------------- *)

IsSeparator(line) == StartsWith(StripPlus(line), Separator)
IsConflictEnd(line) == StartsWith(StripPlus(line), ConflictEnd)

\* first loop: fromContent.push(lines[index]); index++
ConflictOriginal ==
    /\ pc = "original"
    /\ conflict.index < Len(lines)
    /\ ~IsSeparator(At(conflict.index))
    /\ chunk' = [chunk EXCEPT
                     !.fromContent = Append(@, At(conflict.index))]
    /\ conflict' = [conflict EXCEPT !.index = @ + 1]
    /\ UNCHANGED <<nonParserVars, filename, patch, pc, lines, i, results>>

\* the step between the two loops without its index++: the separator line
\* is left to the second loop
ConflictSeparator_KeepsSeparator ==
    /\ pc = "original"
    /\ ~(conflict.index < Len(lines) /\ ~IsSeparator(At(conflict.index)))
    /\ pc' = "modified"
    /\ UNCHANGED <<nonParserVars, filename, patch, lines, i, results, chunk, conflict>>

\* the first loop is over: index++
ConflictSeparator ==
    /\ pc = "original"
    /\ ~(conflict.index < Len(lines) /\ ~IsSeparator(At(conflict.index)))
    /\ conflict' = [conflict EXCEPT !.index = @ + 1]
    /\ pc' = "modified"
    /\ UNCHANGED <<nonParserVars, filename, patch, lines, i, results, chunk>>

\* second loop: toContent.push(`${patchLineNo} ${lines[index]}`); index++
ConflictModified ==
    /\ pc = "modified"
    /\ conflict.index < Len(lines)
    /\ ~IsConflictEnd(At(conflict.index))
    /\ chunk' = [chunk EXCEPT
                     !.toContent =
                         Append(@, NumberToString(conflict.patchLineNo)
                                       \o <<" ">> \o At(conflict.index))]
    /\ conflict' = [conflict EXCEPT !.index = @ + 1]
    /\ UNCHANGED <<nonParserVars, filename, patch, pc, lines, i, results>>

\* processConflictMarker returning the index of the opening marker as
\* nextIndex: the chunk scan would start over at the marker
ConflictReturnValue_RestartsAtMarker ==
    IF conflict.index < Len(lines)
    THEN [origBranch |-> conflict.origBranch,
          modBranch |-> commitMatch(At(conflict.index)).modBranch,
          modCommitId |-> commitMatch(At(conflict.index)).modCommitId,
          nextIndex |-> conflict.lineNo]
    ELSE [origBranch |-> conflict.origBranch,
          modBranch |-> Undefined,
          modCommitId |-> Undefined,
          nextIndex |-> conflict.lineNo]

\* what processConflictMarker returns once the second loop is over
ConflictReturnValue ==
    IF conflict.index < Len(lines)
    THEN [origBranch |-> conflict.origBranch,
          modBranch |-> commitMatch(At(conflict.index)).modBranch,
          modCommitId |-> commitMatch(At(conflict.index)).modCommitId,
          nextIndex |-> conflict.index + 1]
    ELSE [origBranch |-> conflict.origBranch,
          modBranch |-> Undefined,
          modCommitId |-> Undefined,
          nextIndex |-> conflict.index]

\* the second loop is over: parse the closing marker, return, and
\* processChunk takes the branches, the commit id and nextIndex (continue)
ConflictReturn ==
    /\ pc = "modified"
    /\ ~(conflict.index < Len(lines) /\ ~IsConflictEnd(At(conflict.index)))
    /\ chunk' = [chunk EXCEPT
                     !.origBranch = ConflictReturnValue.origBranch,
                     !.modBranch = ConflictReturnValue.modBranch,
                     !.modCommitId = ConflictReturnValue.modCommitId,
                     !.i = ConflictReturnValue.nextIndex]
    /\ conflict' = NoConflict
    /\ pc' = "chunk"
    /\ UNCHANGED <<nonParserVars, filename, patch, lines, i, results>>

(* --------------------------- specification ---------------------------- *)

Next ==
    \/ ParsePatchEmpty
    \/ ParsePatchSplit
    \/ SkipLine
    \/ SkipHeader
    \/ EnterChunk
    \/ ParsePatchReturn
    \/ ChunkNormalLine
    \/ ChunkConflictLine
    \/ ChunkReturn
    \/ ConflictOriginal
    \/ ConflictSeparator
    \/ ConflictModified
    \/ ConflictReturn

Spec == Init /\ [][Next]_vars

(* ------------------------ parsePatch called again --------------------- *)

\* how many calls of parsePatch precede the last one
MaxCalls == 2

CallFilenames == {"a.ts", "b.ts"}

\* patches that between them take every path of the parser
CallPatches ==
    { Absent,
      <<Ctx, HdrBad, HdrA, Add, Del>>,
      <<HdrA, Open, Ctx, Sep, Add, Close, Ctx>>,
      <<HdrA, Add, HdrB, Del>>,
      <<HdrB, Open, Add>>,
      <<HdrA, Ctx>> }

InitCalls ==
    /\ filename \in CallFilenames
    /\ patch \in CallPatches
    /\ pc = "parsePatch"
    /\ lines = << >>
    /\ i = 0
    /\ results = << >>
    /\ chunk = NoChunk
    /\ conflict = NoConflict
    /\ history = << >>
    /\ ReviewerIdle
    /\ RestIdle

\* a next call whose results array is the one of the call before, as a
\* module-level array would be
Recall_KeepsResults ==
    /\ pc = "done"
    /\ Len(history) < MaxCalls
    /\ history' = Append(history, [filename |-> filename, patch |-> patch,
                                    results |-> results])
    /\ filename' \in CallFilenames
    /\ patch' \in CallPatches
    /\ pc' = "parsePatch"
    /\ lines' = << >>
    /\ i' = 0
    /\ results' = results
    /\ chunk' = NoChunk
    /\ conflict' = NoConflict
    /\ UNCHANGED <<reviewVars, restVars>>

\* the call has returned and parsePatch is called again: the module keeps
\* nothing, and const results = [] and the other locals are created anew
Recall ==
    /\ pc = "done"
    /\ Len(history) < MaxCalls
    /\ history' = Append(history, [filename |-> filename, patch |-> patch,
                                    results |-> results])
    /\ filename' \in CallFilenames
    /\ patch' \in CallPatches
    /\ pc' = "parsePatch"
    /\ lines' = << >>
    /\ i' = 0
    /\ results' = << >>
    /\ chunk' = NoChunk
    /\ conflict' = NoConflict
    /\ UNCHANGED <<reviewVars, restVars>>

NextCalls ==
    \/ ParsePatchEmpty
    \/ ParsePatchSplit
    \/ SkipLine
    \/ SkipHeader
    \/ EnterChunk
    \/ ParsePatchReturn
    \/ ChunkNormalLine
    \/ ChunkConflictLine
    \/ ChunkReturn
    \/ ConflictOriginal
    \/ ConflictSeparator
    \/ ConflictModified
    \/ ConflictReturn
    \/ Recall

SpecCalls == InitCalls /\ [][NextCalls]_vars

(* ===================== reviewer.ts: parseReviewComment ================= *)

\* \s of a JavaScript regular expression and the characters String.trim
\* removes, over the characters a model reply can hold
WhiteSpace == SpaceChars \cup {"\n"}

UpperCase ==
    <<"A", "B", "C", "D", "E", "F", "G", "H", "I", "J", "K", "L", "M",
      "N", "O", "P", "Q", "R", "S", "T", "U", "V", "W", "X", "Y", "Z">>

LowerCase ==
    <<"a", "b", "c", "d", "e", "f", "g", "h", "i", "j", "k", "l", "m",
      "n", "o", "p", "q", "r", "s", "t", "u", "v", "w", "x", "y", "z">>

\* String.prototype.toLowerCase
ToLowerCase(s) ==
    [k \in 1..Len(s) |->
        IF \E n \in 1..26 : UpperCase[n] = s[k]
        THEN LowerCase[CHOOSE n \in 1..26 : UpperCase[n] = s[k]]
        ELSE s[k]]

\* String.prototype.trim
Trim(s) ==
    LET a == RunEnd(s, 0, WhiteSpace)
    IN  IF a >= Len(s) THEN << >>
        ELSE LET b == CHOOSE e \in 1..Len(s) :
                          /\ s[e] \notin WhiteSpace
                          /\ \A k \in (e + 1)..Len(s) : s[k] \in WhiteSpace
             IN  Substring(s, a, b)

Dashes == <<"-", "-", "-">>

LGTM == <<"l", "g", "t", "m", "!">>

\* the cut made only where "---" is a line of its own
RECURSIVE SplitDashes_OnlyOwnLine(_)
SplitDashes_OnlyOwnLine(s) ==
    LET brk == <<"\n", "-", "-", "-", "\n">>
    IN  IF ~Includes(s, brk) THEN <<s>>
        ELSE LET p == CHOOSE p \in 0..Len(s) :
                          /\ LitAt(s, p, brk)
                          /\ \A r \in 0..(p - 1) : ~LitAt(s, r, brk)
             IN  <<Substring(s, 0, p)>>
                     \o SplitDashes_OnlyOwnLine(Substring(s, p + 5, Len(s)))

\* reviewComment.split("---"): cut at every occurrence, found from the left
RECURSIVE SplitDashes(_)
SplitDashes(s) ==
    IF ~Includes(s, Dashes) THEN <<s>>
    ELSE LET p == CHOOSE p \in 0..Len(s) :
                      /\ LitAt(s, p, Dashes)
                      /\ \A r \in 0..(p - 1) : ~LitAt(s, r, Dashes)
         IN  <<Substring(s, 0, p)>>
                 \o SplitDashes(Substring(s, p + 3, Len(s)))

\* .filter((section) => section.trim().length > 0)
Sections(s) == SelectSeq(SplitDashes(s), LAMBDA x : Len(Trim(x)) > 0)

NoMatch == [matches |-> FALSE, start |-> << >>, end |-> << >>,
            body |-> << >>]

\* the smaller of two numbers
Min(a, b) == IF a <= b THEN a ELSE b

\* :?\s*([\s\S]+\S)$  tried on . (the dot-all class written [\s\S]) with
\* group 3 held to one line, as  (.+\S)  would
ReviewRest_SingleLine(s, e2) ==
    LET colon == e2 < Len(s) /\ s[e2 + 1] = ":"
        c1    == e2 + 1
        g1    == Min(RunEnd(s, c1, WhiteSpace), Len(s) - 2)
        g0    == Min(RunEnd(s, e2, WhiteSpace), Len(s) - 2)
    IN  IF colon /\ Len(s) - c1 >= 2
               /\ \A k \in (g1 + 1)..Len(s) : s[k] # "\n"
        THEN [matches |-> TRUE, from |-> g1]
        ELSE IF Len(s) - e2 >= 2
                   /\ \A k \in (g0 + 1)..Len(s) : s[k] # "\n"
        THEN [matches |-> TRUE, from |-> g0]
        ELSE [matches |-> FALSE, from |-> 0]

\* :?\s*([\s\S]+\S)$  tried at 0-based position e2 of a string whose last
\* character is not white space: group 3 needs two characters, the ":" is
\* taken first and given back if what follows it is too short, and \s*
\* takes the whole run of white space and gives back as much as group 3
\* needs; from is where group 3 starts
ReviewRest(s, e2) ==
    LET colon == e2 < Len(s) /\ s[e2 + 1] = ":"
        c1    == e2 + 1
    IN  IF colon /\ Len(s) - c1 >= 2
        THEN [matches |-> TRUE,
              from |-> Min(RunEnd(s, c1, WhiteSpace), Len(s) - 2)]
        ELSE IF Len(s) - e2 >= 2
        THEN [matches |-> TRUE,
              from |-> Min(RunEnd(s, e2, WhiteSpace), Len(s) - 2)]
        ELSE [matches |-> FALSE, from |-> 0]

\* section.trim().match(/^(\d+)-(\d+):?\s*([\s\S]+\S)$/): group 1 is the
\* whole leading run of digits (a shorter one would be followed by a
\* digit, not by "-"); group 2 takes the whole run of digits after the "-"
\* and gives digits back, one at a time, until the rest of the pattern
\* matches
ReviewMatch(s) ==
    LET e1   == RunEnd(s, 0, DigitChars)
        dash == e1 >= 1 /\ e1 < Len(s) /\ s[e1 + 1] = "-"
        a2   == e1 + 1
        m2   == RunEnd(s, a2, DigitChars)
        ends == {e \in (a2 + 1)..m2 : ReviewRest(s, e).matches}
    IN  IF ~dash \/ ends = {} THEN NoMatch
        ELSE IF s[Len(s)] \in WhiteSpace THEN NoMatch
        ELSE LET e2 == CHOOSE e \in ends : \A o \in ends : o <= e
             IN  [matches |-> TRUE,
                  start |-> Substring(s, 0, e1),
                  end |-> Substring(s, a2, e2),
                  body |-> Substring(s, ReviewRest(s, e2).from, Len(s))]

\* comment.toLowerCase().includes("lgtm!") without the toLowerCase
IsLGTM_CaseSensitive(comment) == Includes(comment, LGTM)

\* comment.toLowerCase().includes("lgtm!")
IsLGTM(comment) == Includes(ToLowerCase(comment), LGTM)

\* the record pushed for a section that matched
ReviewOf(filename_, m) ==
    [filename |-> filename_,
     startLine |-> ParseInt(m.start),
     endLine |-> ParseInt(m.end),
     comment |-> Trim(m.body),
     isLGTM |-> IsLGTM(Trim(m.body))]

\* the loop body with an inverted range put in order instead of dropped
parseSection_SwapsRange(filename_, section) ==
    LET m == ReviewMatch(Trim(section))
    IN  IF ~m.matches THEN << >>
        ELSE IF ParseInt(m.start) <= ParseInt(m.end)
        THEN <<ReviewOf(filename_, m)>>
        ELSE <<[ReviewOf(filename_, m) EXCEPT
                    !.startLine = ParseInt(m.end),
                    !.endLine = ParseInt(m.start)]>>

\* the loop body with a record pushed for a section that did not match
parseSection_KeepsUnmatched(filename_, section) ==
    LET m == ReviewMatch(Trim(section))
    IN  IF ~m.matches
        THEN <<[filename |-> filename_, startLine |-> 0, endLine |-> 0,
                comment |-> Trim(section), isLGTM |-> IsLGTM(Trim(section))]>>
        ELSE IF ParseInt(m.start) <= ParseInt(m.end)
        THEN <<ReviewOf(filename_, m)>>
        ELSE << >>

\* the body of the loop over the sections: what one section adds to result
parseSection(filename_, section) ==
    LET m == ReviewMatch(Trim(section))
    IN  IF ~m.matches THEN << >>
        ELSE IF ParseInt(m.start) <= ParseInt(m.end)
        THEN <<ReviewOf(filename_, m)>>
        ELSE << >>

\* the loop over the sections, left at the first section that adds nothing
RECURSIVE parseSections_StopsAtInvalid(_, _)
parseSections_StopsAtInvalid(filename_, sections) ==
    IF sections = << >> THEN << >>
    ELSE IF parseSection(filename_, Head(sections)) = << >> THEN << >>
    ELSE parseSection(filename_, Head(sections))
             \o parseSections_StopsAtInvalid(filename_, Tail(sections))

\* for (const section of sections) { ... result.push(...) }
RECURSIVE parseSections(_, _)
parseSections(filename_, sections) ==
    IF sections = << >> THEN << >>
    ELSE parseSection(filename_, Head(sections))
             \o parseSections(filename_, Tail(sections))

\* parseReviewComment(filename, reviewComment)
parseReviewComment(filename_, reviewComment) ==
    IF Len(reviewComment) = 0 \/ Len(Trim(reviewComment)) = 0 THEN << >>
    ELSE parseSections(filename_, Sections(reviewComment))

(* ------------------ Commenter.createReviewComment ---------------------- *)

REVIEW_START_TAG ==
    <<"<", "!", "-", "-", " ", "T", "h", "i", "s", " ", "i", "s", " ", "a",
      "n", " ", "a", "u", "t", "o", "-", "g", "e", "n", "e", "r", "a", "t",
      "e", "d", " ", "c", "o", "m", "m", "e", "n", "t", ":", " ", "c", "o",
      "d", "e", " ", "r", "e", "v", "i", "e", "w", " ", "-", "-", ">">>

REVIEW_END_TAG ==
    <<"<", "!", "-", "-", " ", "e", "n", "d", " ", "o", "f", " ", "a", "u",
      "t", "o", "-", "g", "e", "n", "e", "r", "a", "t", "e", "d", " ", "c",
      "o", "m", "m", "e", "n", "t", ":", " ", "c", "o", "d", "e", " ", "r",
      "e", "v", "i", "e", "w", " ", "-", "-", ">">>

\* `${REVIEW_START_TAG}\n\n${review.comment}\n\n${REVIEW_END_TAG}`
ReviewBody(comment) ==
    REVIEW_START_TAG \o <<"\n", "\n">> \o comment \o <<"\n", "\n">>
        \o REVIEW_END_TAG

\* requestParams with start_line sent for a one-line comment too
RequestParams_AlwaysStartLine(filename_, review) ==
    [path |-> filename_, body |-> ReviewBody(review.comment),
     start_line |-> review.startLine, line |-> review.endLine]

\* requestParams: baseRequest (owner, repo, pull_number and commit_id come
\* from the pull request context and are the same in every request) with
\* line, and with start_line when the range has more than one line
RequestParams(filename_, review) ==
    IF review.startLine = review.endLine
    THEN [path |-> filename_, body |-> ReviewBody(review.comment),
          line |-> review.endLine]
    ELSE [path |-> filename_, body |-> ReviewBody(review.comment),
          start_line |-> review.startLine, line |-> review.endLine]

(* ------------------------- replies of the model ------------------------ *)

\* how many sections the reply rawA has at most
MaxSections == 2

\* what the model is told to put between two comments
SectionBreak == <<"\n", "-", "-", "-", "\n">>

H12 == [text |-> <<"1", "-", "2">>, start |-> 1, end |-> 2]

H22 == [text |-> <<"2", "-", "2">>, start |-> 2, end |-> 2]

H1510 == [text |-> <<"1", "5", "-", "1", "0">>, start |-> 15, end |-> 10]

Heads == {H12, H22, H1510}

BGood ==
    [text |-> <<"G", "o", "o", "d">>,
     trimmed |-> <<"G", "o", "o", "d">>]

BX ==
    [text |-> <<"x">>,
     trimmed |-> <<"x">>]

BLgtm ==
    [text |-> <<"L", "G", "T", "M", "!", " ", "o", "k">>,
     trimmed |-> <<"L", "G", "T", "M", "!", " ", "o", "k">>]

BMixed ==
    [text |-> <<"a", " ", "L", "g", "T", "m", "!">>,
     trimmed |-> <<"a", " ", "L", "g", "T", "m", "!">>]

BNoBang ==
    [text |-> <<"l", "g", "t", "m">>,
     trimmed |-> <<"l", "g", "t", "m">>]

BFence ==
    [text |-> <<"~", "~", "~", "d", "i", "f", "f", "\n", "-", " ", "a", "\n", "+", " ", "b", "\n", "~", "~", "~">>,
     trimmed |-> <<"~", "~", "~", "d", "i", "f", "f", "\n", "-", " ", "a", "\n", "+", " ", "b", "\n", "~", "~", "~">>]

BPadded ==
    [text |-> <<" ", "t", "w", "o", "\n", " ", " ", "l", "i", "n", "e", "s", " ", "\n">>,
     trimmed |-> <<"t", "w", "o", "\n", " ", " ", "l", "i", "n", "e", "s">>]

Bodies == {BGood, BX, BLgtm, BMixed, BNoBang, BFence, BPadded}

\* a section as the prompt asks for it: the range, ":", a line break and
\* the comment
Formed(h, b) == h.text \o <<":", "\n">> \o b.text

FormedSections == {Formed(h, b) : h \in Heads, b \in Bodies}

Invalid == <<"I", "n", "v", "a", "l", "i", "d">>

RangeInside == <<"x", " ", "1", "-", "2", ":", " ", "y">>

Blank == <<" ", "\n", " ">>

RangeOnly == <<"1", "-", "1", "0", ":">>

RangeOnlyB == <<"1", "0", "-", "1", "5", ":">>

RangeBare == <<"1", "-", "2">>

RangeOnlyC == <<"3", "-", "4", "5", ":", " ">>

NoColon == <<"4", "-", "5", " ", "y">>

NoBreak == <<"2", "-", "3", ":", "x">>

Letters == <<"a", "-", "b", ":", "\n", "x">>

CutInside == <<"1", "-", "2", ":", " ", "a", "-", "-", "-", "b">>

CutInFence ==
    <<"2", "-", "2", ":", "\n", "~", "~", "~", "\n", "-", "-", "-", " ", "a",
      "\n", "~", "~", "~">>

PiecesA ==
    { Formed(H12, BGood), Formed(H22, BX), Formed(H1510, BGood),
      Formed(H12, BLgtm), Formed(H12, BMixed), Invalid, RangeOnly, << >> }

\* the replies of up to n sections
RECURSIVE RepliesUpTo(_)
RepliesUpTo(n) ==
    IF n <= 1 THEN PiecesA
    ELSE RepliesUpTo(n - 1)
             \cup {a \o SectionBreak \o p : a \in RepliesUpTo(n - 1),
                                           p \in PiecesA}

RepliesA == RepliesUpTo(MaxSections)

RepliesB ==
    FormedSections
        \cup { << >>, Invalid, RangeInside, Blank, RangeOnly, RangeOnlyB,
               RangeBare, RangeOnlyC, NoColon, NoBreak, Letters, CutInside,
               CutInFence }

(* ----------------------- Reviewer.processReviewTask -------------------- *)

ParserIdle ==
    /\ patch = Absent
    /\ pc = "idle"
    /\ lines = << >>
    /\ i = 0
    /\ results = << >>
    /\ chunk = NoChunk
    /\ conflict = NoConflict
    /\ history = << >>

InitReview ==
    /\ filename \in Filenames
    /\ ParserIdle
    /\ RestIdle
    /\ rawA \in RepliesA
    /\ rawB \in RepliesB
    /\ localAction \in BOOLEAN
    /\ rpc = "parse"
    /\ parsed = [a |-> << >>, b |-> << >>, ab |-> << >>]
    /\ reviews = << >>
    /\ ridx = 0
    /\ requests = << >>

\* parseReviewComment applied to rawA, to rawB and to the two joined by the
\* section break
ParseReviewComments ==
    /\ rpc = "parse"
    /\ parsed' = [a  |-> parseReviewComment(filename, rawA),
                  b  |-> parseReviewComment(filename, rawB),
                  ab |-> parseReviewComment(filename,
                                            rawA \o SectionBreak \o rawB)]
    /\ rpc' = "task"
    /\ UNCHANGED <<parserVars, history, restVars, rawA, rawB, localAction, reviews,
                   ridx, requests>>

\* createReview throws: warning, return []
CreateReviewFails ==
    /\ rpc = "task"
    /\ reviews' = << >>
    /\ rpc' = "failed"
    /\ UNCHANGED <<parserVars, history, restVars, rawA, rawB, localAction, parsed,
                   ridx, requests>>

\* createReview returns rawA: trim, parseReviewComment, enter the loop
CreateReviewReturns ==
    /\ rpc = "task"
    /\ reviews' = parseReviewComment(filename, Trim(rawA))
    /\ ridx' = 1
    /\ rpc' = "loop"
    /\ UNCHANGED <<parserVars, history, restVars, rawA, rawB, localAction, parsed,
                   requests>>

\* the loop with an LGTM comment posted like any other
SkipLGTM_Posts ==
    /\ rpc = "loop"
    /\ ridx <= Len(reviews)
    /\ reviews[ridx].isLGTM
    /\ requests' = Append(requests,
                          [review |-> reviews[ridx],
                           params |-> RequestParams(filename, reviews[ridx])])
    /\ ridx' = ridx + 1
    /\ UNCHANGED <<parserVars, history, restVars, rawA, rawB, localAction, rpc, parsed,
                   reviews>>

\* if (review.isLGTM) continue
SkipLGTM ==
    /\ rpc = "loop"
    /\ ridx <= Len(reviews)
    /\ reviews[ridx].isLGTM
    /\ ridx' = ridx + 1
    /\ UNCHANGED <<parserVars, history, restVars, rawA, rawB, localAction, rpc, parsed,
                   reviews, requests>>

\* options.localAction is set: nothing is posted
SkipLocal ==
    /\ rpc = "loop"
    /\ ridx <= Len(reviews)
    /\ ~reviews[ridx].isLGTM
    /\ localAction
    /\ ridx' = ridx + 1
    /\ UNCHANGED <<parserVars, history, restVars, rawA, rawB, localAction, rpc, parsed,
                   reviews, requests>>

\* await this.commenter.createReviewComment(change.filename, review): the
\* call and the request it sends; a failure of the request is caught and
\* logged and changes nothing
PostComment ==
    /\ rpc = "loop"
    /\ ridx <= Len(reviews)
    /\ ~reviews[ridx].isLGTM
    /\ ~localAction
    /\ requests' = Append(requests,
                          [review |-> reviews[ridx],
                           params |-> RequestParams(filename, reviews[ridx])])
    /\ ridx' = ridx + 1
    /\ UNCHANGED <<parserVars, history, restVars, rawA, rawB, localAction, rpc, parsed,
                   reviews>>

\* return reviews
TaskReturn ==
    /\ rpc = "loop"
    /\ ridx > Len(reviews)
    /\ rpc' = "returned"
    /\ UNCHANGED <<parserVars, history, restVars, rawA, rawB, localAction, parsed,
                   reviews, ridx, requests>>

NextReview ==
    \/ ParseReviewComments
    \/ CreateReviewFails
    \/ CreateReviewReturns
    \/ SkipLGTM
    \/ SkipLocal
    \/ PostComment
    \/ TaskReturn

SpecReview == InitReview /\ [][NextReview]_vars

(* ====================== properties of parsePatch ====================== *)

\* processChunk stands at its return statement
AtReturn == pc = "chunk" /\ ~ChunkLoop

\* the lines processChunk has scanned so far after its header
\* (nextIndex of a conflict block cut short by the end is lines.length + 1)
ScanEnd == IF chunk.i > Len(lines) THEN Len(lines) ELSE chunk.i

Body == [k \in 1..(ScanEnd - chunk.startIndex - 1) |-> At(chunk.startIndex + k)]

HasOpening(body) == \E k \in 1..Len(body) : Includes(body[k], ConflictStart)

\* the lines of body that do not start with the character c, in order
Without(body, c) == SelectSeq(body, LAMBDA l : ~StartsWith(l, <<c>>))

\* a to.content entry read back: decimal number, one space, the line
NumberEnd(entry) == RunEnd(entry, 0, DigitChars)

Numbered(entry) ==
    /\ NumberEnd(entry) > 0
    /\ NumberEnd(entry) < Len(entry)
    /\ entry[NumberEnd(entry) + 1] = " "

LineNumberOf(entry) == ParseInt(Substring(entry, 0, NumberEnd(entry)))

Unnumbered(entry) == Substring(entry, NumberEnd(entry) + 1, Len(entry))

Unnumber(content) == [k \in 1..Len(content) |-> Unnumbered(content[k])]

\* C1: in a chunk whose body holds no conflict marker, the k-th entry of
\* to.content carries the number toStart + k - 1; a deletion line adds no
\* entry and does not advance the counter, every context and addition line
\* advances it by one.
C1_LineRenumbering ==
    (pc = "chunk" /\ ~HasOpening(Body)) =>
        /\ Len(chunk.toContent) = Len(Without(Body, "-"))
        /\ \A k \in 1..Len(chunk.toContent) :
               /\ Numbered(chunk.toContent[k])
               /\ LineNumberOf(chunk.toContent[k])
                      = ChunkResult.to.startLine + k - 1
        /\ chunk.lineNo
               = ChunkResult.to.startLine - 1 + Len(Without(Body, "-"))

\* a chunk "@@ ... +9,5 @@" done with a deletion between two kept lines:
\* the entries are numbered 9 and 10
C1_Witness ==
    /\ AtReturn
    /\ ~HasOpening(Body)
    /\ ChunkResult.to.startLine = 9
    /\ Len(chunk.toContent) >= 2
    /\ \E k \in 2..(Len(Body) - 1) : StartsWith(Body[k], <<"-">>)

\* C2: in a chunk without conflict markers from.content is the body lines
\* not starting with '+', verbatim and in order, and to.content is the body
\* lines not starting with '-', in order, each behind its number and a space.
C2_SidePartition ==
    (pc = "chunk" /\ ~HasOpening(Body)) =>
        /\ chunk.fromContent = Without(Body, "+")
        /\ \A k \in 1..Len(chunk.toContent) : Numbered(chunk.toContent[k])
        /\ Unnumber(chunk.toContent) = Without(Body, "-")

\* a finished chunk holding a context line, an addition and a deletion
C2_Witness ==
    /\ AtReturn
    /\ ~HasOpening(Body)
    /\ \E k \in 1..Len(Body) : StartsWith(Body[k], <<"+">>)
    /\ \E k \in 1..Len(Body) : StartsWith(Body[k], <<"-">>)
    /\ \E k \in 1..Len(Body) : StartsWith(Body[k], <<" ">>)
    /\ Len(chunk.fromContent) = 2
    /\ Len(chunk.toContent) = 2

\* the 0-based indices of the lines that start with "@@" and match the
\* chunk-header pattern, and the n-th of them
HeaderIndices ==
    {k \in 0..(Len(lines) - 1) :
         StartsWith(At(k), AtAt) /\ parseChunkHeader(At(k)) # Null}

NthHeader(n) ==
    CHOOSE k \in HeaderIndices :
        Cardinality({j \in HeaderIndices : j < k}) = n - 1

\* C3: parsePatch returns one DiffResult for each line that starts with
\* "@@" and matches the header pattern, in order, the i-th result carrying
\* the i-th header's four numbers and the caller's filename on both hunks.
C3_OneResultPerHeader ==
    pc = "done" =>
        /\ Len(results) = Cardinality(HeaderIndices)
        /\ \A n \in 1..Len(results) :
               n <= Cardinality(HeaderIndices) =>
                   LET h == parseChunkHeader(At(NthHeader(n)))
                   IN  /\ results[n].from.startLine = h.fromStart
                       /\ results[n].from.lineCount = h.fromCount
                       /\ results[n].to.startLine = h.toStart
                       /\ results[n].to.lineCount = h.toCount
                       /\ results[n].from.filename = filename
                       /\ results[n].to.filename = filename

\* C4 as claimed: in every emitted chunk without conflict markers
\* to.content has to.lineCount entries and from.content has from.lineCount.
C4_ContentMatchesDeclaredCount ==
    (AtReturn /\ ~HasOpening(Body)) =>
        /\ Len(ChunkResult.to.content) = ChunkResult.to.lineCount
        /\ Len(ChunkResult.from.content) = ChunkResult.from.lineCount

\* C4 amended: lineCount is the count the header declares, passed through
\* unvalidated; to.content has as many entries as the body has lines not
\* starting with '-', from.content as many as lines not starting with '+',
\* so a content length equals its lineCount exactly when the declared count
\* agrees with the body.
C4_ContentCountsBodyLines ==
    (AtReturn /\ ~HasOpening(Body)) =>
        LET h == parseChunkHeader(At(chunk.startIndex))
        IN  /\ ChunkResult.to.lineCount = h.toCount
            /\ ChunkResult.from.lineCount = h.fromCount
            /\ Len(ChunkResult.to.content) = Len(Without(Body, "-"))
            /\ Len(ChunkResult.from.content) = Len(Without(Body, "+"))
            /\ (Len(ChunkResult.to.content) = ChunkResult.to.lineCount
                    <=> Len(Without(Body, "-")) = h.toCount)
            /\ (Len(ChunkResult.from.content) = ChunkResult.from.lineCount
                    <=> Len(Without(Body, "+")) = h.fromCount)

\* a finished chunk "@@ -1,2 +3,3 @@ f" whose body has the declared two old
\* and three new lines
C4_Witness ==
    /\ AtReturn
    /\ ~HasOpening(Body)
    /\ At(chunk.startIndex) = HdrA
    /\ Len(Body) = 3
    /\ Len(ChunkResult.from.content) = 2
    /\ Len(ChunkResult.to.content) = 3

\* a well-formed header cut after its closing "@@"
BareOf(header) ==
    Substring(header, 0,
              Len(header) - Len(parseChunkHeader(header).firstLine) - 1)

\* C5: a header "@@ -a,b +c,d @@" with nothing after the closing "@@" is
\* recognized and yields a DiffResult as the header with trailing context
\* does.
C5_BareHeaderRecognized ==
    \A header \in {HdrA, HdrB} :
        (pc = "done" /\ Len(lines) >= 1 /\ lines[1] = BareOf(header)) =>
            /\ Len(results) >= 1
            /\ results[1].from.startLine = parseChunkHeader(header).fromStart
            /\ results[1].from.lineCount = parseChunkHeader(header).fromCount
            /\ results[1].to.startLine = parseChunkHeader(header).toStart
            /\ results[1].to.lineCount = parseChunkHeader(header).toCount

\* the body of the header at index h: the lines after it up to the next
\* line starting with "@@" or the end
BodyOf(h) ==
    LET stop == IF \E k \in (h + 1)..(Len(lines) - 1) : StartsWith(At(k), AtAt)
                THEN CHOOSE k \in (h + 1)..(Len(lines) - 1) :
                         /\ StartsWith(At(k), AtAt)
                         /\ \A j \in (h + 1)..(k - 1) : ~StartsWith(At(j), AtAt)
                ELSE Len(lines)
    IN  {At(k) : k \in (h + 1)..(stop - 1)}

\* C6: an empty or absent patch, or one without a matching header line,
\* yields no result; a malformed "@@" line yields no result, and neither
\* it, the lines after it up to the next "@@" line, nor a line before the
\* first header is in any content; well-formed chunks after it are emitted.
C6_SilentSkip ==
    pc = "done" =>
        /\ (Falsy(patch) \/ HeaderIndices = {}) => results = << >>
        /\ Len(results) = Cardinality(HeaderIndices)
        /\ \A n \in 1..Len(results) :
               n <= Cardinality(HeaderIndices) =>
                   /\ \A k \in 1..Len(results[n].from.content) :
                          results[n].from.content[k] \in BodyOf(NthHeader(n))
                   /\ \A k \in 1..Len(results[n].to.content) :
                          Unnumbered(results[n].to.content[k])
                              \in BodyOf(NthHeader(n))

(* ------------------------- conflict blocks ---------------------------- *)

\* the first index in lo..hi that is in the set P, -1 when there is none
FirstIndex(lo, hi, P) ==
    IF \E k \in lo..hi : k \in P
    THEN CHOOSE k \in lo..hi : k \in P /\ \A j \in lo..(k - 1) : j \notin P
    ELSE -1

Openings   == {k \in 0..(Len(lines) - 1) : Includes(At(k), ConflictStart)}
Separators == {k \in 0..(Len(lines) - 1) : IsSeparator(At(k))}
Closings   == {k \in 0..(Len(lines) - 1) : IsConflictEnd(At(k))}

\* lines[a .. b], 0-based and inclusive
Lines(a, b) == [k \in 1..(b - a + 1) |-> At(a + k - 1)]

\* the first conflict block of the chunk in progress: its opening line, the
\* first separator after it and the first closing line after that
OpenIdx ==
    FirstIndex(chunk.startIndex + 1, ScanEnd - 1, Openings)

SepIdx ==
    IF OpenIdx < 0 THEN -1
    ELSE FirstIndex(OpenIdx + 1, Len(lines) - 1, Separators)

CloseIdx ==
    IF SepIdx < 0 THEN -1
    ELSE FirstIndex(SepIdx + 1, Len(lines) - 1, Closings)

\* the chunk is done and holds one conflict block, complete, with no
\* further opening line after its closing line
SingleBlock ==
    /\ AtReturn
    /\ CloseIdx >= 0
    /\ ~HasOpening(Lines(CloseIdx + 1, ScanEnd - 1))

\* the contents a chunk with a single block is to have: the lines before
\* the block and after it split as normal lines, the lines before the
\* separator on the from side only, the lines after it on the to side only
ExpectedFrom ==
    Without(Lines(chunk.startIndex + 1, OpenIdx - 1), "+")
        \o Lines(OpenIdx + 1, SepIdx - 1)
        \o Without(Lines(CloseIdx + 1, ScanEnd - 1), "+")

ExpectedTo ==
    Without(Lines(chunk.startIndex + 1, OpenIdx - 1), "-")
        \o Lines(SepIdx + 1, CloseIdx - 1)
        \o Without(Lines(CloseIdx + 1, ScanEnd - 1), "-")

\* the token that follows the first "<<<<<<<" of the line
TokenAfterMarker(line) ==
    LET p     == CHOOSE q \in 0..Len(line) :
                     /\ LitAt(line, q, ConflictStart)
                     /\ \A r \in 0..(q - 1) : ~LitAt(line, r, ConflictStart)
        start == RunEnd(line, p + 7, {" "})
    IN  Substring(line, start, RunEndNot(line, start, {" "}))

\* the closing line ">>>>>>> commit (branch)" behind its diff markers
ClosingLine(commit, branch) ==
    ConflictEnd \o <<" ">> \o commit \o <<" ", "(">> \o branch \o <<")">>

\* C7: for a chunk with a conflict block opened by a line containing
\* "<<<<<<< X", whatever diff marker precedes it, and closed by
\* ">>>>>>> C (B)", from.branch = X, to.branch = B and to.commitId = C.
C7_ConflictFields ==
    \A commit \in {<<"9", "b", "5">>}, branch \in {<<"w", "i", "p">>} :
        (SingleBlock
            /\ StripPlus(At(CloseIdx)) = ClosingLine(commit, branch)) =>
                /\ ChunkResult.from.branch = TokenAfterMarker(At(OpenIdx))
                /\ ChunkResult.to.branch = branch
                /\ ChunkResult.to.commitId = commit

\* the sub-scan stands at its return on a closing line
AtConflictClose ==
    /\ pc = "modified"
    /\ conflict.index < Len(lines)
    /\ IsConflictEnd(At(conflict.index))

\* the last n entries of a content
LastEntries(content, n) == SubSeq(content, Len(content) - n + 1, Len(content))

C9_ConsecutiveNumbers ==
    pc = "chunk" =>
        \A k \in 1..Len(chunk.toContent) :
            LineNumberOf(chunk.toContent[k]) = ChunkResult.to.startLine + k - 1

\* the closing line matches  />>>>>>> (\w+)\s+\(([^)]+)\)/
ClosingWellFormed(line) == \E p \in 0..Len(line) : CommitAt(line, p).matches

\* C10: when the closing line of the block does not match
\* ">>>>>>> <commitId> (<branch>)", to.branch and to.commitId stay unset,
\* from.branch is set from the opening line, the closing line is consumed
\* and not emitted, and the lines after it are scanned as normal lines.
C10_PermissiveClosing ==
    (SingleBlock /\ ~ClosingWellFormed(At(CloseIdx))) =>
        /\ ChunkResult.to.branch = Undefined
        /\ ChunkResult.to.commitId = Undefined
        /\ ChunkResult.from.branch = SplitSecond(At(OpenIdx))
        /\ ChunkResult.from.content = ExpectedFrom
        /\ Unnumber(ChunkResult.to.content) = ExpectedTo

\* a finished chunk whose block closes with ">>>>>>> 9b5" and is followed
\* by a normal line
C10_Witness ==
    /\ SingleBlock
    /\ StripPlus(At(CloseIdx)) = ConflictEnd \o <<" ", "9", "b", "5">>
    /\ ScanEnd > CloseIdx + 1
    /\ Len(ChunkResult.to.content) >= 1
    /\ ChunkResult.to.branch = Undefined
    /\ ChunkResult.from.branch = <<"H", "E", "A", "D">>

(* ------------------------------ termination --------------------------- *)

\* lines.length of the call, known from the argument before the split
LineCount == IF Falsy(patch) THEN 0 ELSE Len(patch)

\* the index of the scan that is running: i of parsePatch, i of
\* processChunk, index of processConflictMarker
Position ==
    CASE pc = "parsePatch" -> 0
      [] pc = "scan"       -> i
      [] pc = "chunk"      -> chunk.i
      [] pc = "original"   -> conflict.index
      [] pc = "modified"   -> conflict.index
      [] pc = "done"       -> i

\* how deep the scan that is running is nested, for the steps that hand the
\* index over without moving it (a return, the entry of parsePatch)
Rank ==
    CASE pc = "parsePatch" -> 5
      [] pc = "original"   -> 4
      [] pc = "modified"   -> 3
      [] pc = "chunk"      -> 2
      [] pc = "scan"       -> 1
      [] pc = "done"       -> 0

\* the variant of the three nested scans
Measure == 6 * (LineCount + 1 - Position) + Rank

\* the line a step reads first, if it reads one: lines[i] in parsePatch and
\* processChunk, lines[index] in processConflictMarker
ReadsLine ==
    CASE pc = "scan"     -> i < Len(lines)
      [] pc = "chunk"    -> chunk.i < Len(lines)
      [] pc = "original" -> conflict.index < Len(lines)
      [] pc = "modified" -> conflict.index < Len(lines)
      [] OTHER           -> FALSE

\* a turn of one of the loops, as opposed to its exit
LoopTurn ==
    \/ SkipLine \/ SkipHeader \/ EnterChunk
    \/ ChunkNormalLine \/ ChunkConflictLine
    \/ ConflictOriginal \/ ConflictModified

\* what holds in every state of a call: the variant is a natural number,
\* the index is at most one past the input, a line is read only at an index
\* inside the input, and what the call returns is a sequence
TerminationInv ==
    /\ Measure \in Nat
    /\ Position \in 0..(LineCount + 1)
    /\ ReadsLine => Position + 1 \in DOMAIN lines
    /\ pc = "done" => DOMAIN results = 1..Len(results)

\* one step of a call: the index and the variant move as they must
TerminationStep ==
    /\ LoopTurn => Position' > Position
    /\ Position' >= Position
    /\ Measure' < Measure
    /\ TerminationInv
    /\ TerminationInv'

\* C11: parsePatch terminates normally on every finite input: every turn of
\* the top-level scan, the chunk scan and the conflict sub-scan moves the
\* index forward and no step moves it back, the variant of the nested scans
\* decreases at every step and stays a natural number (so the steps of a
\* call are finitely many), a line is read only at an index inside the
\* input, and what is returned is a sequence.
C11_Terminates == [][TerminationStep]_vars

\* a call that returned one result although its conflict block had neither
\* separator nor closing marker: the sub-scan ran to the end of the input
\* and the index stands one past it
C11_Witness ==
    /\ pc = "done"
    /\ Openings # {}
    /\ Separators = {}
    /\ i = Len(lines) + 1
    /\ Len(results) = 1

(* ------------------------------ determinism --------------------------- *)

\* C12: parsePatch is deterministic and keeps no state between calls: a
\* call that returns has the result of every earlier call with the same
\* filename and the same patch, whatever the calls before and between were.
C12_SameCallSameResult ==
    pc = "done" =>
        \A k \in 1..Len(history) :
            (history[k].filename = filename /\ history[k].patch = patch)
                => history[k].results = results

\* the third call repeats the first with a conflict block, after a call on
\* another patch, and returns a result
C12_Witness ==
    /\ pc = "done"
    /\ Len(history) = 2
    /\ history[1].filename = filename
    /\ history[1].patch = patch
    /\ history[2].patch # patch
    /\ history[2].results # << >>
    /\ Len(results) = 1
    /\ results[1].from.branch # Undefined

(* ---------------------------- chunk boundary -------------------------- *)

\* processChunk or the processConflictMarker it called is running
InChunk == pc \in {"chunk", "original", "modified"}

\* index of the next line after the header that starts with "@@", or
\* lines.length
OwnEnd ==
    IF \E k \in (chunk.startIndex + 1)..(Len(lines) - 1) :
           StartsWith(At(k), AtAt)
    THEN CHOOSE k \in (chunk.startIndex + 1)..(Len(lines) - 1) :
             /\ StartsWith(At(k), AtAt)
             /\ \A j \in (chunk.startIndex + 1)..(k - 1) :
                    ~StartsWith(At(j), AtAt)
    ELSE Len(lines)

\* C23: the contents of a chunk hold only lines strictly between its header
\* and the next line starting with "@@" (or the end of input): no entry is
\* a line starting with "@@" and neither content has more entries than the
\* chunk has such lines, also while a conflict sub-scan is running.
C23_ChunkBodyBoundary ==
    InChunk =>
        /\ \A k \in 1..Len(chunk.fromContent) :
               ~StartsWith(chunk.fromContent[k], AtAt)
        /\ \A k \in 1..Len(chunk.toContent) :
               ~StartsWith(Unnumbered(chunk.toContent[k]), AtAt)
        /\ Len(chunk.fromContent) <= OwnEnd - chunk.startIndex - 1
        /\ Len(chunk.toContent) <= OwnEnd - chunk.startIndex - 1

(* --------------------------- conflict counter ------------------------- *)

\* the last entry of a content
LastEntry(content) == content[Len(content)]

\* one step seen from the running output line counter (lineNo of
\* processChunk, passed to processConflictMarker as patchLineNo)
CounterStep ==
    /\ ChunkConflictLine =>
           /\ chunk'.lineNo = chunk.lineNo + 1
           /\ conflict'.patchLineNo = chunk'.lineNo
    /\ pc \in {"original", "modified"} =>
           /\ chunk'.lineNo = chunk.lineNo
           /\ conflict.patchLineNo = chunk.lineNo
    /\ ConflictModified =>
           /\ Len(chunk'.toContent) = Len(chunk.toContent) + 1
           /\ LineNumberOf(LastEntry(chunk'.toContent)) = chunk.lineNo
    /\ (ChunkNormalLine /\ ~StartsWith(At(chunk.i), <<"-">>)) =>
           /\ Len(chunk'.toContent) = Len(chunk.toContent) + 1
           /\ LineNumberOf(LastEntry(chunk'.toContent)) = chunk.lineNo + 1

\* C24: on a line containing "<<<<<<<" the counter is incremented once
\* before the sub-scan; the sub-scan does not change it and prefixes every
\* post-separator line with its value; the next context or addition line
\* of the chunk is numbered one more than that value.
C24_ConflictCounterStep == [][CounterStep]_vars

\* a finished chunk with one block: the post-separator line carries the
\* counter value of the block and the context line after the closing
\* marker the next one
C24_Witness ==
    /\ SingleBlock
    /\ SepIdx + 2 = CloseIdx
    /\ ScanEnd = CloseIdx + 2
    /\ Len(chunk.toContent) = 2
    /\ LineNumberOf(chunk.toContent[1]) = chunk.headerResult.toStart
    /\ LineNumberOf(chunk.toContent[2]) = chunk.headerResult.toStart + 1
    /\ chunk.lineNo = chunk.headerResult.toStart + 1

(* ================= properties of parseReviewComment =================== *)

\* parseReviewComment has been applied to rawA, rawB and their join
Applied == rpc \notin {"idle", "parse"}

\* every record the three applications returned
Returned == parsed.a \o parsed.b \o parsed.ab

\* the number written by the whole run of digits at the head of a section
WrittenStart(s) == ParseInt(Substring(s, 0, RunEnd(s, 0, DigitChars)))

\* the number written by the whole run of digits after the "-"
WrittenEnd(s) ==
    LET a2 == RunEnd(s, 0, DigitChars) + 1
    IN  ParseInt(Substring(s, a2, RunEnd(s, a2, DigitChars)))

Inverted(s) == s \in FormedSections /\ WrittenStart(s) > WrittenEnd(s)

OneLine(s) == s \in FormedSections /\ WrittenStart(s) = WrittenEnd(s)

\* C13: every returned record has startLine <= endLine; a section with a
\* comment whose range is inverted adds no record (it is not swapped) and
\* leaves the records of the other sections as they are; a section whose
\* two numbers are equal is kept.
C13_RangeOrdered ==
    Applied =>
        /\ \A k \in 1..Len(Returned) :
               Returned[k].startLine <= Returned[k].endLine
        /\ Inverted(rawB) => (parsed.b = << >> /\ parsed.ab = parsed.a)
        /\ Inverted(rawA) => (parsed.a = << >> /\ parsed.ab = parsed.b)
        /\ OneLine(rawB) =>
               /\ Len(parsed.b) = 1
               /\ parsed.b[1].startLine = WrittenStart(rawB)
               /\ parsed.b[1].endLine = WrittenStart(rawB)
               /\ parsed.ab = parsed.a \o parsed.b

\* "15-10:" with a comment after two sections that are kept, one of them
\* with equal numbers
C13_Witness ==
    /\ Applied
    /\ rawB = Formed(H1510, BGood)
    /\ Len(parsed.a) = 2
    /\ parsed.ab = parsed.a
    /\ \E k \in 1..2 : parsed.a[k].startLine = parsed.a[k].endLine

\* the input, trimmed, is digits, "-", digits and an optional ":"
IsRangeOnly(s) ==
    LET t  == Trim(s)
        e1 == RunEnd(t, 0, DigitChars)
        a2 == e1 + 1
        e2 == RunEnd(t, a2, DigitChars)
    IN  /\ e1 >= 1
        /\ e1 < Len(t)
        /\ t[e1 + 1] = "-"
        /\ e2 > a2
        /\ \/ e2 = Len(t)
           \/ e2 + 1 = Len(t) /\ t[Len(t)] = ":"

\* C14: a section that is only a line range (digits, "-", digits, optional
\* ":" and optional white space, for any two numbers) yields no record.
C14_RangeOnlyYieldsNothing ==
    (Applied /\ IsRangeOnly(rawB)) => parsed.b = << >>

\* C15: parseReviewComment(f, a + "\n---\n" + b) is parseReviewComment(f, a)
\* followed by parseReviewComment(f, b): no section changes the records of
\* its neighbours and the records keep the order of their sections.
C15_NoCrossSectionMemory ==
    Applied => parsed.ab = parsed.a \o parsed.b

\* a discarded section stands before a kept one in rawA, and rawB adds a
\* record
C15_Witness ==
    /\ Applied
    /\ StartsWith(rawA, Invalid \o SectionBreak)
    /\ Len(parsed.a) = 1
    /\ Len(parsed.b) = 1
    /\ Len(parsed.ab) = 2
    /\ parsed.ab[2] = parsed.b[1]

\* "lgtm!" stands in the comment in some mix of upper and lower case
ContainsLgtmAnyCase(c) ==
    \E p \in 0..(Len(c) - 5) :
        /\ c[p + 1] \in {"l", "L"}
        /\ c[p + 2] \in {"g", "G"}
        /\ c[p + 3] \in {"t", "T"}
        /\ c[p + 4] \in {"m", "M"}
        /\ c[p + 5] = "!"

\* C16: isLGTM of a returned record is true exactly when its comment holds
\* "lgtm!" in any mix of upper and lower case, anywhere in the comment.
C16_LgtmFlag ==
    Applied =>
        \A k \in 1..Len(Returned) :
            Returned[k].isLGTM <=> ContainsLgtmAnyCase(Returned[k].comment)

\* a record flagged for "a LgTm!" and one not flagged for "lgtm"
C16_Witness ==
    /\ Applied
    /\ \E k \in 1..Len(Returned) :
           Returned[k].isLGTM /\ Returned[k].comment = BMixed.text
    /\ \E k \in 1..Len(Returned) :
           ~Returned[k].isLGTM /\ Returned[k].comment = BNoBang.text

\* what parseReviewComment must return for the section Formed(h, b)
PreservedAs(rs, h, b) ==
    /\ Len(rs) = 1
    /\ rs[1].filename = filename
    /\ rs[1].startLine = h.start
    /\ rs[1].endLine = h.end
    /\ rs[1].comment = b.trimmed

\* C17: for a single section "<a>-<b>:", a line break and a body with a
\* character that is not white space and without "---", a <= b, exactly one
\* record is returned; its comment is the body without leading and trailing
\* white space, every inner line kept, also lines of a fenced block that
\* start with "-" or "+".
C17_CommentPreserved ==
    Applied =>
        \A h \in Heads : \A b \in Bodies :
            h.start <= h.end =>
                /\ rawA = Formed(h, b) => PreservedAs(parsed.a, h, b)
                /\ rawB = Formed(h, b) => PreservedAs(parsed.b, h, b)

\* the section with the fenced diff block has been parsed
C17_Witness ==
    /\ Applied
    /\ rawB = Formed(H12, BFence)
    /\ Len(parsed.b) = 1
    /\ Len(parsed.b[1].comment) = Len(BFence.text)
    /\ Includes(parsed.b[1].comment, <<"\n", "-", " ", "a", "\n", "+">>)

\* nothing but white space
IsBlank(s) == \A k \in 1..Len(s) : s[k] \in WhiteSpace

\* one section that does not start with digits, "-" and a digit
Unmatched(s) ==
    LET t  == Trim(s)
        e1 == RunEnd(t, 0, DigitChars)
    IN  /\ ~Includes(s, Dashes)
        /\ ~IsBlank(s)
        /\ ~(e1 >= 1 /\ e1 + 1 < Len(t) /\ t[e1 + 1] = "-"
                /\ t[e1 + 2] \in DigitChars)

\* C18: parseReviewComment returns a sequence for every input; for an empty
\* or white-space input and for an input in which no section starts with a
\* range, the sequence is empty.
C18_EmptyOrUnmatched ==
    Applied =>
        /\ DOMAIN parsed.a = 1..Len(parsed.a)
        /\ DOMAIN parsed.b = 1..Len(parsed.b)
        /\ DOMAIN parsed.ab = 1..Len(parsed.ab)
        /\ (IsBlank(rawA) \/ Unmatched(rawA)) => parsed.a = << >>
        /\ (IsBlank(rawB) \/ Unmatched(rawB)) => parsed.b = << >>
        /\ ((IsBlank(rawA) \/ Unmatched(rawA))
                /\ (IsBlank(rawB) \/ Unmatched(rawB))) => parsed.ab = << >>

\* the empty string and "x 1-2: y" have been parsed, alone and joined
C18_Witness ==
    /\ Applied
    /\ rawA = << >>
    /\ rawB = RangeInside
    /\ parsed.ab = << >>

\* C28: the range digits are never split: for a returned record of an
\* input of one section, startLine is the number written by the whole run
\* of digits before the "-" and endLine the number written by the whole
\* run of digits after it.
C28_RangeDigitsWhole ==
    (Applied /\ ~Includes(rawB, Dashes)) =>
        \A k \in 1..Len(parsed.b) :
            /\ parsed.b[k].startLine = WrittenStart(Trim(rawB))
            /\ parsed.b[k].endLine = WrittenEnd(Trim(rawB))

\* C29: no returned record has a comment containing "---"; an input with
\* "---" in the middle of a line or inside a fenced block is cut there and
\* the piece before the cut is classified on its own.
C29_NoDashesInComment ==
    Applied =>
        /\ \A k \in 1..Len(Returned) : ~Includes(Returned[k].comment, Dashes)
        /\ rawB = CutInside =>
               /\ Len(parsed.b) = 1
               /\ parsed.b[1].comment = <<"a">>
        /\ rawB = CutInFence =>
               /\ Len(parsed.b) = 1
               /\ parsed.b[1].comment = <<"~", "~", "~">>

\* the reply with "---" inside a fenced block has been parsed after a reply
\* of two records
C29_Witness ==
    /\ Applied
    /\ rawB = CutInFence
    /\ Len(parsed.a) = 2
    /\ Len(parsed.ab) = 3
    /\ parsed.ab[3].comment = <<"~", "~", "~">>

(* ============ properties of the review task and the commenter ========= *)

\* C19: every request of createReviewComment has line = endLine and
\* path = filename; it has start_line, equal to startLine, exactly when
\* startLine differs from endLine.
C19_RequestLines ==
    \A k \in 1..Len(requests) :
        /\ requests[k].params.line = requests[k].review.endLine
        /\ requests[k].params.path = filename
        /\ "start_line" \in DOMAIN requests[k].params
               <=> requests[k].review.startLine # requests[k].review.endLine
        /\ "start_line" \in DOMAIN requests[k].params
               => requests[k].params.start_line = requests[k].review.startLine

\* a request for a one-line comment and a request for a range were sent
C19_Witness ==
    /\ Len(requests) = 2
    /\ requests[1].review.startLine < requests[1].review.endLine
    /\ requests[1].params.start_line = 1
    /\ requests[2].review.startLine = requests[2].review.endLine
    /\ "start_line" \notin DOMAIN requests[2].params

\* the reviews that are not LGTM, in their order
NonLGTM(rs) == SelectSeq(rs, LAMBDA r : ~r.isLGTM)

\* the reviews createReviewComment was called with, in the order of the
\* calls
Posted == [k \in 1..Len(requests) |-> requests[k].review]

\* C20: a review task posts exactly the parsed comments with isLGTM false,
\* one call each in the order they were parsed, and never a comment with
\* isLGTM true; with localAction set, and when no reply was obtained, it
\* posts nothing.
C20_PostsNonLGTM ==
    /\ \A k \in 1..Len(requests) : ~requests[k].review.isLGTM
    /\ localAction => requests = << >>
    /\ rpc = "failed" => requests = << >>
    /\ (rpc = "loop" /\ ~localAction)
           => Posted = NonLGTM(SubSeq(reviews, 1, ridx - 1))
    /\ (rpc = "returned" /\ ~localAction) =>
           /\ Posted = NonLGTM(reviews)
           /\ \A k \in 1..Len(requests) :
                  /\ requests[k].params.line = NonLGTM(reviews)[k].endLine
                  /\ requests[k].params.body
                         = ReviewBody(NonLGTM(reviews)[k].comment)

\* a task that returned after passing over an LGTM comment and posting the
\* comment after it
C20_Witness ==
    /\ rpc = "returned"
    /\ ~localAction
    /\ Len(reviews) = 2
    /\ reviews[1].isLGTM
    /\ ~reviews[2].isLGTM
    /\ Len(requests) = 1
    /\ requests[1].review = reviews[2]

(* ---------------- Reviewer.reviewChanges and createReview -------------- *)

MaxModels == 3

MaxTasks == 4

MaxBatch == 3

MaxRetries == 1

Models == {"openai/gpt", "google/gemini", "anthropic/claude"}

\* createChatBotFromModel: the client class a model name selects
Provider(m) ==
    CASE m = "openai/gpt" -> "OpenAIClient"
      [] m = "google/gemini" -> "GeminiClient"
      [] m = "anthropic/claude" -> "ClaudeClient"

\* OpenAIClient.create and ClaudeClient.create throw when the API call fails
Throws(m) == Provider(m) \in {"OpenAIClient", "ClaudeClient"}

\* the model lists of the configuration: no model twice
ModelLists ==
    {l \in SeqsUpTo(Models, 0, MaxModels) :
        \A a, b \in 1..Len(l) : l[a] = l[b] => a = b}

\* a processReviewTask call that has not started
NoTask == [state |-> "waiting", bot |-> "none", tried |-> << >>,
           failedOn |-> << >>, thrown |-> 0, outcome |-> "none",
           starts |-> 0, returned |-> "none"]

\* currentBatch = allTasks.slice(i, i + batchSize), as 1-based positions
CurrentBatch == {t \in 1..Len(tasks) : batchI < t /\ t <= batchI + batchSize}

InitBatch ==
    /\ filename \in Filenames
    /\ ParserIdle
    /\ ReviewerIdle
    /\ CommitIdle
    /\ CacheIdle
    /\ configured \in ModelLists
    /\ bots = configured
    /\ retries \in 0..MaxRetries
    /\ batchSize \in 1..MaxBatch
    /\ batchI = 0
    /\ bpc = "loop"
    /\ tasks \in {[t \in 1..n |-> NoTask] : n \in 0..MaxTasks}
    /\ removals = << >>

\* createReview up to its await: getReviewBot, then reviewBot.create; with
\* no bot left the error is caught by processReviewTask, which returns []
EnterCreateReview(task, list) ==
    IF list = << >>
    THEN [task EXCEPT !.state = "done", !.bot = "none", !.outcome = "error",
                      !.returned = "empty"]
    ELSE [task EXCEPT !.state = "calling", !.bot = list[1],
                      !.tried = @ \o <<list[1]>>]

\* one turn of the for loop: every task of the batch is started and runs up
\* to its first await, then reviewChanges awaits Promise.all
StartBatch ==
    /\ bpc = "loop"
    /\ batchI < Len(tasks)
    /\ tasks' = [t \in 1..Len(tasks) |->
                    IF t \in CurrentBatch
                    THEN EnterCreateReview(
                             [tasks[t] EXCEPT !.starts = @ + 1], bots)
                    ELSE tasks[t]]
    /\ bpc' = "await"
    /\ UNCHANGED <<configured, bots, retries, batchSize, batchI, removals>>
    /\ UNCHANGED <<parserVars, history, reviewVars, commitVars, cacheVars>>

\* reviewBot.create returns the model's reply; processReviewTask goes on to
\* parse it and to post the comments
CallSucceeds(t) ==
    /\ tasks[t].state = "calling"
    /\ tasks' = [tasks EXCEPT ![t].state = "posting", ![t].outcome = "reply",
                              ![t].returned = "reviews"]
    /\ UNCHANGED <<configured, bots, retries, batchSize, batchI, bpc, removals>>
    /\ UNCHANGED <<parserVars, history, reviewVars, commitVars, cacheVars>>

\* the models a call to which has failed so far
FailedModels ==
    UNION {{tasks[t].failedOn[k] : k \in 1..Len(tasks[t].failedOn)} :
              t \in 1..Len(tasks)}

\* fallbackReviewBot: this.reviewBot.shift() when the list is not empty
Shifted(list) == IF Len(list) > 0 THEN SubSeq(list, 2, Len(list)) ELSE list

\* OpenAIClient.create or ClaudeClient.create throws: createReview catches,
\* calls fallbackReviewBot and then itself
CallFails(t) ==
    /\ tasks[t].state = "calling"
    /\ Throws(tasks[t].bot)
    /\ bots' = Shifted(bots)
    /\ removals' = IF Len(bots) > 0
                   THEN Append(removals,
                               [model |-> bots[1], by |-> t,
                                failed |-> tasks[t].bot,
                                failedSoFar |->
                                    FailedModels \cup {tasks[t].bot}])
                   ELSE removals
    /\ tasks' = [tasks EXCEPT ![t] =
                    EnterCreateReview(
                        [tasks[t] EXCEPT !.failedOn = @ \o <<tasks[t].bot>>,
                                         !.thrown = @ + 1],
                        Shifted(bots))]
    /\ UNCHANGED <<configured, retries, batchSize, batchI, bpc>>
    /\ UNCHANGED <<parserVars, history, reviewVars, commitVars, cacheVars>>

\* GeminiClient.create catches the API error; with retries left it counts one
\* down and calls itself
GeminiRetry(t) ==
    /\ tasks[t].state = "calling"
    /\ Provider(tasks[t].bot) = "GeminiClient"
    /\ retries > 0
    /\ retries' = retries - 1
    /\ tasks' = [tasks EXCEPT ![t].failedOn = @ \o <<tasks[t].bot>>]
    /\ UNCHANGED <<configured, bots, batchSize, batchI, bpc, removals>>
    /\ UNCHANGED <<parserVars, history, reviewVars, commitVars, cacheVars>>

\* GeminiClient.create catches the API error; with no retries left it
\* returns "Failed to review this file due to an API error." as the reply
GeminiGivesUp(t) ==
    /\ tasks[t].state = "calling"
    /\ Provider(tasks[t].bot) = "GeminiClient"
    /\ retries <= 0
    /\ tasks' = [tasks EXCEPT ![t].state = "posting",
                              ![t].failedOn = @ \o <<tasks[t].bot>>,
                              ![t].outcome = "failureText",
                              ![t].returned = "reviews"]
    /\ UNCHANGED <<configured, bots, retries, batchSize, batchI, bpc, removals>>
    /\ UNCHANGED <<parserVars, history, reviewVars, commitVars, cacheVars>>

\* processReviewTask has posted its comments and returns reviews
TaskEnds(t) ==
    /\ tasks[t].state = "posting"
    /\ tasks' = [tasks EXCEPT ![t].state = "done"]
    /\ UNCHANGED <<configured, bots, retries, batchSize, batchI, bpc, removals>>
    /\ UNCHANGED <<parserVars, history, reviewVars, commitVars, cacheVars>>

\* a variant of BatchDone that goes on as soon as one task of the batch has
\* returned
BatchDone_NoAwait ==
    /\ bpc = "await"
    /\ \E t \in CurrentBatch : tasks[t].state = "done"
    /\ batchI' = batchI + batchSize
    /\ bpc' = "loop"
    /\ UNCHANGED <<configured, bots, retries, batchSize, tasks, removals>>
    /\ UNCHANGED <<parserVars, history, reviewVars, commitVars, cacheVars>>

\* await Promise.all(batchPromises) resumes: every task of the batch has
\* returned; i += batchSize
BatchDone ==
    /\ bpc = "await"
    /\ \A t \in CurrentBatch : tasks[t].state = "done"
    /\ batchI' = batchI + batchSize
    /\ bpc' = "loop"
    /\ UNCHANGED <<configured, bots, retries, batchSize, tasks, removals>>
    /\ UNCHANGED <<parserVars, history, reviewVars, commitVars, cacheVars>>

\* the for loop ends: return allResults
ReviewChangesReturn ==
    /\ bpc = "loop"
    /\ batchI >= Len(tasks)
    /\ bpc' = "returned"
    /\ UNCHANGED <<configured, bots, retries, batchSize, batchI, tasks, removals>>
    /\ UNCHANGED <<parserVars, history, reviewVars, commitVars, cacheVars>>

NextBatch ==
    \/ StartBatch
    \/ \E t \in 1..Len(tasks) : CallSucceeds(t)
    \/ \E t \in 1..Len(tasks) : CallFails(t)
    \/ \E t \in 1..Len(tasks) : GeminiRetry(t)
    \/ \E t \in 1..Len(tasks) : GeminiGivesUp(t)
    \/ \E t \in 1..Len(tasks) : TaskEnds(t)
    \/ BatchDone
    \/ ReviewChangesReturn

SpecBatch == InitBatch /\ [][NextBatch]_vars

(* ----------------------- reviewChanges properties ---------------------- *)

\* the tasks whose processReviewTask call has started and not returned
InFlight == {t \in 1..Len(tasks) : tasks[t].state \in {"calling", "posting"}}

\* the batch (0-based) a task belongs to
BatchOf(t) == (t - 1) \div batchSize

\* C25: no task of a later batch starts before every task of the preceding
\* batches has returned, so at most batchSize tasks are in flight at any
\* moment, and every task is started exactly once.
C25_BatchBarrier ==
    /\ \A t, u \in 1..Len(tasks) :
           (BatchOf(t) < BatchOf(u) /\ tasks[u].starts > 0)
               => tasks[t].state = "done"
    /\ Cardinality(InFlight) <= batchSize
    /\ \A t \in 1..Len(tasks) :
           /\ tasks[t].starts <= 1
           /\ tasks[t].state # "waiting" => tasks[t].starts = 1
    /\ bpc = "returned" =>
           \A t \in 1..Len(tasks) :
               tasks[t].starts = 1 /\ tasks[t].state = "done"

\* the second batch is in flight, as many tasks as a batch holds, after the
\* tasks of the first batch have all returned
C25_Witness ==
    /\ batchSize = 2
    /\ Len(tasks) = 4
    /\ batchI = 2
    /\ InFlight = {3, 4}
    /\ tasks[1].state = "done"
    /\ tasks[2].state = "done"

\* C26: a model is removed from the shared list only after a call made to
\* that same model has failed.
C26_RemovedOnlyAfterOwnFailure ==
    \A k \in 1..Len(removals) :
        removals[k].model \in removals[k].failedSoFar

\* position of a model in the configured list
PosIn(list, m) == CHOOSE k \in 1..Len(list) : list[k] = m

\* a task's createReview call has ended
Ended(t) == tasks[t].state \in {"posting", "done"}

\* the models fallen back from so far
Removed == {removals[k].model : k \in 1..Len(removals)}

\* the calls a task has made follow the configured order without a gap, and
\* a request whose last call failed has ended only with no model after it
FallbackInOrder ==
    \A t \in 1..Len(tasks) :
        /\ \A k \in 1..(Len(tasks[t].tried) - 1) :
               PosIn(configured, tasks[t].tried[k + 1])
                   = PosIn(configured, tasks[t].tried[k]) + 1
        /\ (/\ Ended(t)
            /\ tasks[t].outcome \in {"failureText", "error"}
            /\ tasks[t].tried # << >>)
               => tasks[t].tried[Len(tasks[t].tried)]
                      = configured[Len(configured)]

FallbackStep ==
    /\ FallbackInOrder'
    /\ \A t \in 1..Len(tasks) :
           tasks'[t].tried # tasks[t].tried
               => tasks'[t].tried[Len(tasks'[t].tried)] \notin Removed'

\* C21: models are used in the configured order; whenever the call to the
\* model in use fails, for any provider, the request is retried with the next
\* model of the list; and no request calls a model that has been fallen back
\* from.
C21_FallbackOrder == [][FallbackStep]_vars

\* C27: a createReview call over N configured models ends after at most N
\* failed calls, either with the first successful reply or with an error
\* once the list is empty; the error becomes an empty comment list, and
\* reviewChanges returns with every task ended.
C27_FallbackEnds ==
    /\ \A t \in 1..Len(tasks) :
           /\ tasks[t].thrown <= Len(configured)
           /\ Ended(t) => tasks[t].outcome \in {"reply", "error"}
           /\ tasks[t].outcome = "reply" =>
                  tasks[t].tried = tasks[t].failedOn \o <<tasks[t].bot>>
           /\ tasks[t].outcome = "error" =>
                  /\ bots = << >>
                  /\ tasks[t].returned = "empty"
    /\ bpc = "returned" =>
           \A t \in 1..Len(tasks) : tasks[t].state = "done"

(* ----------- Commenter: the reviewed commit ids of a comment ----------- *)

MaxAdds == 2

COMMIT_ID_START_TAG ==
    <<"<", "!", "-", "-", " ", "c", "o", "m", "m", "i", "t", "_", "i", "d",
      "s", "_", "r", "e", "v", "i", "e", "w", "e", "d", "_", "s", "t", "a",
      "r", "t", " ", "-", "-", ">">>

COMMIT_ID_END_TAG ==
    <<"<", "!", "-", "-", " ", "c", "o", "m", "m", "i", "t", "_", "i", "d",
      "s", "_", "r", "e", "v", "i", "e", "w", "e", "d", "_", "e", "n", "d",
      " ", "-", "-", ">">>

CommentOpen == <<"<", "!", "-", "-">>

CommentClose == <<"-", "-", ">">>

\* String.prototype.indexOf: 0-based position of the first occurrence, or -1
IndexOf(s, lit) ==
    IF ~Includes(s, lit) THEN -1
    ELSE CHOOSE p \in 0..Len(s) :
             /\ LitAt(s, p, lit)
             /\ \A r \in 0..(p - 1) : ~LitAt(s, r, lit)

Max(a, b) == IF a >= b THEN a ELSE b

\* String.prototype.substring(a, b): the arguments are held to 0..length
\* and swapped when a > b
JsSubstring(s, a, b) ==
    LET ca == Max(0, Min(a, Len(s)))
        cb == Max(0, Min(b, Len(s)))
    IN  Substring(s, Min(ca, cb), Max(ca, cb))

\* String.prototype.split(lit): cut at every occurrence, found from the left
RECURSIVE SplitOn(_, _)
SplitOn(s, lit) ==
    IF IndexOf(s, lit) = -1 THEN <<s>>
    ELSE <<Substring(s, 0, IndexOf(s, lit))>>
             \o SplitOn(Substring(s, IndexOf(s, lit) + Len(lit), Len(s)), lit)

\* String.prototype.replace(lit, ""): the first occurrence only
ReplaceFirst(s, lit) ==
    IF IndexOf(s, lit) = -1 THEN s
    ELSE Substring(s, 0, IndexOf(s, lit))
             \o Substring(s, IndexOf(s, lit) + Len(lit), Len(s))

\* Commenter.getReviewedCommitIds
getReviewedCommitIds(commentBody) ==
    LET start == IndexOf(commentBody, COMMIT_ID_START_TAG)
        end   == IndexOf(commentBody, COMMIT_ID_END_TAG)
    IN  IF start = -1 \/ end = -1 THEN << >>
        ELSE LET ids   == JsSubstring(commentBody,
                                      start + Len(COMMIT_ID_START_TAG), end)
                 parts == SplitOn(ids, CommentOpen)
                 clean == [k \in 1..Len(parts) |->
                              Trim(ReplaceFirst(parts[k], CommentClose))]
             IN  SelectSeq(clean, LAMBDA id : id # << >>)

\* Commenter.addReviewedCommitId
addReviewedCommitId(comment, commitId) ==
    LET start == IndexOf(comment, COMMIT_ID_START_TAG)
        end   == IndexOf(comment, COMMIT_ID_END_TAG)
        entry == CommentOpen \o <<" ">> \o commitId \o <<" ">>
                     \o CommentClose \o <<"\n">>
    IN  IF start = -1 \/ end = -1
        THEN comment \o <<"\n">> \o COMMIT_ID_START_TAG \o <<"\n">> \o entry
                 \o COMMIT_ID_END_TAG
        ELSE JsSubstring(comment, 0, start + Len(COMMIT_ID_START_TAG))
                 \o JsSubstring(comment,
                                start + Len(COMMIT_ID_START_TAG), end)
                 \o entry
                 \o JsSubstring(comment, end, Len(comment))

\* commit ids
CommitIds == {<<"a", "1">>, <<"b", "2">>, <<"c", "3">>}

\* <!-- id -->
IdEntry(id) == CommentOpen \o <<" ">> \o id \o <<" ">> \o CommentClose

Summary == <<"S", "u", "m">>

\* comment texts: without the tags; empty; with an empty block; with a block
\* as addReviewedCommitId writes it; with a block on one line and text
\* after it; with the ids written bare; with the start tag only; with the
\* end tag only; with the end tag before the start tag
CommentTexts ==
    {Summary,
     << >>,
     Summary \o COMMIT_ID_START_TAG \o COMMIT_ID_END_TAG,
     Summary \o <<"\n">> \o COMMIT_ID_START_TAG \o <<"\n">>
         \o IdEntry(<<"a", "1">>) \o <<"\n">> \o COMMIT_ID_END_TAG,
     Summary \o <<" ">> \o COMMIT_ID_START_TAG \o IdEntry(<<"a", "1">>)
         \o IdEntry(<<"b", "2">>) \o COMMIT_ID_END_TAG \o <<" ">> \o Summary,
     COMMIT_ID_START_TAG \o <<"c", "3">> \o COMMIT_ID_END_TAG,
     Summary \o COMMIT_ID_START_TAG,
     COMMIT_ID_END_TAG \o Summary,
     COMMIT_ID_END_TAG \o Summary \o COMMIT_ID_START_TAG}

InitCommit ==
    /\ filename \in Filenames
    /\ ParserIdle
    /\ ReviewerIdle
    /\ BatchIdle
    /\ CacheIdle
    /\ cbody \in CommentTexts
    /\ cprev = << >>
    /\ cx = << >>
    /\ cids = getReviewedCommitIds(cbody)
    /\ cadds = 0

\* comment = addReviewedCommitId(comment, commitId), then the ids are read
\* back with getReviewedCommitIds
AddReviewedCommitId(commitId) ==
    /\ cadds < MaxAdds
    /\ cprev' = cbody
    /\ cx' = commitId
    /\ cbody' = addReviewedCommitId(cbody, commitId)
    /\ cids' = getReviewedCommitIds(addReviewedCommitId(cbody, commitId))
    /\ cadds' = cadds + 1
    /\ UNCHANGED <<parserVars, history, reviewVars, batchVars, cacheVars>>

NextCommit == \E commitId \in CommitIds : AddReviewedCommitId(commitId)

SpecCommit == InitCommit /\ [][NextCommit]_vars

(* ------------------------ commit id properties ------------------------- *)

\* C22: the ids read from addReviewedCommitId(c, x) are the ids read from c
\* followed by x, whether or not c holds the tags; so the last id read is
\* the one added last.
C22_RoundTrip ==
    cadds > 0 =>
        /\ cids = getReviewedCommitIds(cprev) \o <<cx>>
        /\ cids[Len(cids)] = cx

(* ------------------- Commenter: the issue comments -------------------- *)

MaxComments == 2

MaxOps == 3

\* comment bodies
CommentBodies == {"x", "y"}

\* the comments a pull request holds when the Commenter is created: ids
\* 1..n in the order GitHub lists them
ServerLists ==
    UNION {[1..n -> CommentBodies] : n \in 0..MaxComments}

InitComments ==
    /\ filename \in Filenames
    /\ ParserIdle
    /\ ReviewerIdle
    /\ BatchIdle
    /\ CommitIdle
    /\ \E bodies \in ServerLists :
           server = [k \in 1..Len(bodies) |-> [id |-> k, body |-> bodies[k]]]
    /\ cache = [present |-> FALSE, list |-> << >>]
    /\ listed = [called |-> FALSE, list |-> << >>]
    /\ kops = 0
    /\ apiErrors = 0

\* if (this.issueCommentsCache[target]) push(issue) else = [issue]
Cached(issue) ==
    IF cache.present
    THEN [present |-> TRUE, list |-> Append(cache.list, issue)]
    ELSE [present |-> TRUE, list |-> <<issue>>]

\* createComment: GitHub stores the comment under a new id, and the comment
\* of the response is added to the cache
CreateComment(body) ==
    /\ kops < MaxOps
    /\ LET issue == [id |-> Len(server) + 1, body |-> body]
       IN  /\ server' = Append(server, issue)
           /\ cache' = Cached(issue)
    /\ listed' = [listed EXCEPT !.called = FALSE]
    /\ kops' = kops + 1
    /\ UNCHANGED apiErrors
    /\ UNCHANGED <<parserVars, history, reviewVars, batchVars, commitVars>>

\* updateComment: GitHub replaces the body of the comment, and the comment
\* of the response is added to the cache
UpdateComment(body, commentId) ==
    /\ kops < MaxOps
    /\ commentId \in 1..Len(server)
    /\ LET issue == [id |-> commentId, body |-> body]
       IN  /\ server' = [server EXCEPT ![commentId] = issue]
           /\ cache' = Cached(issue)
    /\ listed' = [listed EXCEPT !.called = FALSE]
    /\ kops' = kops + 1
    /\ UNCHANGED apiErrors
    /\ UNCHANGED <<parserVars, history, reviewVars, batchVars, commitVars>>

\* createComment or updateComment whose API call throws: catch, warning
WriteFails ==
    /\ kops < MaxOps
    /\ listed' = [listed EXCEPT !.called = FALSE]
    /\ kops' = kops + 1
    /\ apiErrors' = apiErrors + 1
    /\ UNCHANGED <<server, cache>>
    /\ UNCHANGED <<parserVars, history, reviewVars, batchVars, commitVars>>

\* listComments with the target cached
ListCached ==
    /\ kops < MaxOps
    /\ cache.present
    /\ listed' = [called |-> TRUE, list |-> cache.list]
    /\ kops' = kops + 1
    /\ UNCHANGED <<server, cache, apiErrors>>
    /\ UNCHANGED <<parserVars, history, reviewVars, batchVars, commitVars>>

\* listComments with the target not cached: the first page holds every
\* comment (fewer than 100), the loop ends, the list is cached and returned
ListFetched ==
    /\ kops < MaxOps
    /\ ~cache.present
    /\ cache' = [present |-> TRUE, list |-> server]
    /\ listed' = [called |-> TRUE, list |-> server]
    /\ kops' = kops + 1
    /\ UNCHANGED <<server, apiErrors>>
    /\ UNCHANGED <<parserVars, history, reviewVars, batchVars, commitVars>>

\* listComments with the target not cached and a response whose status is
\* not 200: warning, break; the empty list is cached and returned
ListNotOk ==
    /\ kops < MaxOps
    /\ ~cache.present
    /\ cache' = [present |-> TRUE, list |-> << >>]
    /\ listed' = [called |-> TRUE, list |-> << >>]
    /\ kops' = kops + 1
    /\ apiErrors' = apiErrors + 1
    /\ UNCHANGED server
    /\ UNCHANGED <<parserVars, history, reviewVars, batchVars, commitVars>>

\* listComments with the target not cached and an API call that throws:
\* the empty list is returned and nothing is cached
ListThrows ==
    /\ kops < MaxOps
    /\ ~cache.present
    /\ listed' = [called |-> TRUE, list |-> << >>]
    /\ kops' = kops + 1
    /\ apiErrors' = apiErrors + 1
    /\ UNCHANGED <<server, cache>>
    /\ UNCHANGED <<parserVars, history, reviewVars, batchVars, commitVars>>

NextComments ==
    \/ \E body \in CommentBodies : CreateComment(body)
    \/ \E body \in CommentBodies, commentId \in 1..(MaxComments + MaxOps) :
           UpdateComment(body, commentId)
    \/ WriteFails
    \/ ListCached
    \/ ListFetched
    \/ ListNotOk
    \/ ListThrows

SpecComments == InitComments /\ [][NextComments]_vars

(* ---------------------- comment cache properties ----------------------- *)

\* a list holds every comment of the server once, with its body, and
\* nothing else
Complete(list) ==
    /\ \A s \in 1..Len(server) :
           /\ \E k \in 1..Len(list) : list[k] = server[s]
           /\ \A k, j \in 1..Len(list) :
                  (list[k].id = server[s].id /\ list[j].id = server[s].id)
                      => k = j
    /\ \A k \in 1..Len(list) : \E s \in 1..Len(server) : list[k] = server[s]

\* C30: as long as no API call has failed, what listComments returns, and
\* what the cache holds, is every comment of the server, one entry per
\* comment id, with its latest body.
C30_CacheComplete ==
    apiErrors = 0 =>
        /\ listed.called => Complete(listed.list)
        /\ cache.present => Complete(cache.list)

====
